---- MODULE Spec2Model ----
(***************************************************************************)
(* Model of the google-places-lead-scraper actor (main.js, helpers.js):    *)
(* the Cost Guard (APIRateLimiter), the city / cell / term / page loops of *)
(* Actor.main, the dedup gate, the two-worker enrichment pool, the         *)
(* checkpoint store, the cooldown store and the output dataset.            *)
(*                                                                         *)
(* A run of Actor.main is a sequence of steps of the variable pc; the      *)
(* key-value stores and the dataset outlive a run, everything else is      *)
(* rebuilt when the actor is started again (Restart).                      *)
(***************************************************************************)
EXTENDS Integers, Sequences, FiniteSets, TLC

(***************************************************************************)
(* Bounds of the model.                                                    *)
(***************************************************************************)
\* TOP_US_CITIES.length (100 in the code), scaled
TotalCities == 3
\* searchTerms.length
NumTerms == 2
\* distinct place identifiers the provider can return
NumPlaces == 2
\* actor starts over the same stores (the first run and its restarts)
MaxRuns == 3
\* starts of the actor where the cooldown store is followed
CooldownRuns == 2
\* pages the provider serves for one (cell, term) before the token runs out
MaxPages == 2
\* places on one result page (pageSize: 20 in the code)
PageSize == 2
\* SAVE_INTERVAL of main.js:234 (50 there), scaled
SAVE_INTERVAL == 2
\* clock ticks in one day (24 * 60 * 60 * 1000 ms in the code), scaled
DayTicks == 2
\* largest value of the clock
MaxClock == 2

(***************************************************************************)
(* Program constants.                                                      *)
(***************************************************************************)
\* asyncPool(2, batchLeads, ...)
PoolLimit == 2
\* price per 1000 calls in dollars, and the assumed share of each endpoint
\* in percent; a cost is counted in units of 10^-5 dollar
TextSearchPrice == 32
PlaceDetailsPrice == 17
GeocodingPrice == 5
TextSearchShare == 60
PlaceDetailsShare == 35
GeocodingShare == 5
\* radiusMeters > 5000 splits a city into cells of radius 5000
CellCeiling == 5000
\* cells on one ring of generateHexagonalGeoboxCenters
HexPoints == 6

Terms == 0 .. (NumTerms - 1)
Places == 1 .. NumPlaces
NoRec == -1

VARIABLES
    input,          \* run parameters (Actor.getInput())
    world,          \* the search provider: the places it knows, the pages it serves
    now,            \* Date.now(), in ticks
    cpStore,        \* key 'current-progress' of store 'scraper-checkpoints'
    dedupeStore,    \* keys place:<placeId> of store 'leads-dedupe'
    dataset,        \* records pushed with Actor.pushData: per run, how many per place
    runNo,          \* which start of the actor this is
    pc,             \* position of Actor.main
    err,            \* why the run failed
    checkpoint,     \* the in-memory checkpoint object
    apiCalls,       \* rateLimiter.apiCalls
    gi,             \* loop variable i of the geocoding loop
    targetCenters,  \* the field index of each target center, in order
    cityIdx, cell, termIdx,
    pageNo,         \* pages served so far for the current (cell, term), counted when
                    \* the provider has a last page
    fetched,        \* fetched of the page loop
    places,         \* results of the current page
    pIdx,           \* results of the current page already examined
    nextTok,        \* nextPageToken of the current page
    allPlaces,      \* keys of the Map allPlaces
    batchLeads,     \* the batch buffer
    poolNext,       \* asyncPool: next item of the array to launch
    slots,          \* asyncPool: the enrichments in progress
    cityFlush,      \* TRUE while the pool works on the end-of-city batch
    \* history variables (not program state)
    opened,         \* the key-value stores this run has opened
    resume,         \* the position of the checkpoint this run loaded
    limitHit,       \* a checkLimits() call of this run has thrown
    geocoded,       \* city indices this run sent to the geocoding API
    searched,       \* <<city index, cell, term>> this run sent a search for
    donePrev,       \* cities recorded as completed by earlier attempts
    doneNow,        \* cities this run recorded as completed
    marked,         \* places this run wrote a cooldown record for
    lastGate,       \* what the dedup gate decided in the step just taken
    lastEnrich,     \* what enrichPlaceDetails did in the step just taken
    lastReq,        \* the priced API request issued in the step just taken
    call            \* a helper function applied on its own: arguments and results

vars == << input, world, now, cpStore, dedupeStore, dataset, runNo, pc, err, checkpoint,
           apiCalls, gi, targetCenters, cityIdx, cell, termIdx, pageNo, fetched,
           places, pIdx, nextTok, allPlaces, batchLeads, poolNext, slots, cityFlush,
           opened, resume, limitHit, geocoded, searched, donePrev, doneNow, marked, lastGate,
           lastEnrich, lastReq, call >>

envVars == << input, world, now, runNo, call >>
\* unchanged by every step of a run after Start
fixed == << input, world, now, runNo, resume, call >>
stores == << cpStore, dedupeStore, dataset >>
geoVars == << gi, targetCenters >>
posVars == << cityIdx, cell, termIdx >>
pageVars == << pageNo, fetched, places, pIdx, nextTok >>
poolVars == << poolNext, slots, cityFlush >>
doneVars == << donePrev, doneNow >>

(***************************************************************************)
(* Cost Guard: APIRateLimiter                                              *)
(***************************************************************************)
\* estimateCost(): the three shares of apiCalls at their prices per 1000
\* calls, summed; in units of 10^-5 dollar (percent * dollars per 1000)
estimateCost(n) ==
    n * TextSearchShare * TextSearchPrice
  + n * PlaceDetailsShare * PlaceDetailsPrice
  + n * GeocodingShare * GeocodingPrice

\* the test of checkLimits() that throws 'Daily cost limit reached'
OverLimit(n) == estimateCost(n) >= input.maxDailyCost

\* a checkLimits() that returns without counting the call
countedNot(n) == n

\* this.apiCalls++ at the end of a checkLimits() that returns
counted(n) == n + 1

\* rateLimiter: an APIRateLimiter, or null (FALSE) with enableRateLimiting: false
rateLimiter == input.enableRateLimiting

(***************************************************************************)
(* Cohort Scheduler                                                        *)
(***************************************************************************)
CeilDiv(a, b) == (a + b - 1) \div b
Min(a, b) == IF a < b THEN a ELSE b

TOP_US_CITIES == [k \in 1 .. TotalCities |-> k - 1]

\* getCitiesForCohort with the quotient rounded down
getCitiesForCohortFloor(allCities, cohortIndex, cohortCount) ==
    LET citiesPerCohort == Len(allCities) \div cohortCount
        startIndex == cohortIndex * citiesPerCohort
        endIndex == Min(startIndex + citiesPerCohort, Len(allCities))
    IN  [k \in 1 .. (IF endIndex > startIndex THEN endIndex - startIndex ELSE 0)
            |-> allCities[startIndex + k]]

\* getCitiesForCohort: allCities.slice(startIndex, endIndex)
getCitiesForCohort(allCities, cohortIndex, cohortCount) ==
    LET citiesPerCohort == CeilDiv(Len(allCities), cohortCount)
        startIndex == cohortIndex * citiesPerCohort
        endIndex == Min(startIndex + citiesPerCohort, Len(allCities))
    IN  [k \in 1 .. (IF endIndex > startIndex THEN endIndex - startIndex ELSE 0)
            |-> allCities[startIndex + k]]

\* the cities of the run
selectedCities == getCitiesForCohort(TOP_US_CITIES, input.cityCohortIndex, input.cohortCount)

(***************************************************************************)
(* Inputs and environment                                                  *)
(***************************************************************************)
\* maxDailyCost: 0.10 dollar (reached after 4 calls) or the default 20 dollars
LowCost == 10000
DefaultCost == 2000000
\* maxPerTerm
MaxPerTermInput == 3
\* cohortCount
CohortCountInput == 2

\* the inputs that pass the validation of Actor.main, in city-list mode
Inputs ==
    [present : {TRUE},
     searchTerms : {"list"},
     location : {TRUE},
     useTopUSCities : {TRUE},
     maxDailyCost : {LowCost, DefaultCost},
     radiusMeters : {CellCeiling, CellCeiling + 1},
     maxPerTerm : {MaxPerTermInput},
     cohortCount : {CohortCountInput},
     cityCohortIndex : 0 .. (CohortCountInput - 1),
     persistDedupe : BOOLEAN,
     cooldownDays : {0, 1},
     enableRateLimiting : {TRUE}]

\* the same inputs with enableRateLimiting: false
InputsNoLimiter == {[i EXCEPT !.enableRateLimiting = FALSE] : i \in Inputs}

\* inputs with a part missing: no input at all, searchTerms empty or not a
\* list, no location, no radiusMeters, no maxPerTerm (0 stands for a missing
\* number); the other fields as in one input that passes
RawInputs ==
    [present : BOOLEAN,
     searchTerms : {"list", "empty", "notList"},
     location : BOOLEAN,
     useTopUSCities : {TRUE},
     maxDailyCost : {DefaultCost},
     radiusMeters : {0, CellCeiling},
     maxPerTerm : {0, MaxPerTermInput},
     cohortCount : {CohortCountInput},
     cityCohortIndex : {CohortCountInput - 1},
     persistDedupe : {TRUE},
     cooldownDays : {1},
     enableRateLimiting : {TRUE}]

\* the validation without the test of maxPerTerm
validationErrorShort(i) ==
    IF ~i.present THEN "Input is required"
    ELSE IF i.searchTerms # "list" THEN "searchTerms required"
    ELSE IF ~i.location THEN "location required"
    ELSE IF i.radiusMeters = 0 THEN "radiusMeters required"
    ELSE "none"

\* the validation at the head of Actor.main: the error it throws, if any
validationError(i) ==
    IF ~i.present THEN "Input is required"
    ELSE IF i.searchTerms # "list" THEN "searchTerms required"
    ELSE IF ~i.location THEN "location required"
    ELSE IF i.radiusMeters = 0 THEN "radiusMeters required"
    ELSE IF i.maxPerTerm = 0 THEN "maxPerTerm required"
    ELSE "none"

\* what the text search returns for a place: websiteUri, internationalPhoneNumber
SearchWebsite(p) == p % 3 = 0
SearchPhone(p) == p % 3 = 1

\* a result page: up to PageSize places the provider knows, no place twice
PageResults ==
    { s \in UNION { [1 .. n -> world.places] : n \in 0 .. PageSize } :
        \A a, b \in DOMAIN s : a < b => s[a] < s[b] }

(***************************************************************************)
(* Geo Partitioner                                                         *)
(***************************************************************************)
RECURSIVE RingCells(_, _)
\* the cells of rings ring .. numRings, HexPoints cells a ring, in ring order
RingCells(ring, numRings) ==
    IF ring > numRings THEN << >>
    ELSE [k \in 1 .. HexPoints |-> [ring |-> ring, point |-> k - 1]]
         \o RingCells(ring + 1, numRings)

\* generateHexagonalGeoboxCenters: the center, then the rings
generateHexagonalGeoboxCenters(radiusMeters, boxRadius) ==
    << [ring |-> 0, point |-> 0] >> \o RingCells(1, CeilDiv(radiusMeters, boxRadius))

\* a cell radius that is not capped
boxRadiusUncapped(radiusMeters) == radiusMeters

\* boxRadius: radiusMeters, or 5000 when radiusMeters is larger
boxRadiusOf(radiusMeters) ==
    IF radiusMeters > CellCeiling THEN CellCeiling ELSE radiusMeters

\* geoboxCenters of a city searched with the given radiusMeters
cellsOf(radiusMeters) ==
    IF radiusMeters > CellCeiling
    THEN generateHexagonalGeoboxCenters(radiusMeters, boxRadiusOf(radiusMeters))
    ELSE << [ring |-> 0, point |-> 0] >>

\* geoboxCenters of one city
geoboxCenters == cellsOf(input.radiusMeters)

(***************************************************************************)
(* Checkpoint Manager                                                      *)
(***************************************************************************)
\* the checkpoint of a run that finds none in the store
DefaultCheckpoint ==
    [processedCities |-> << >>, currentCityIndex |-> 0, currentSearchTermIndex |-> 0,
     completedAt |-> FALSE]

\* a completion record that keeps the position of the in-memory checkpoint
CompletedCheckpointKept == [checkpoint EXCEPT !.completedAt = TRUE]

\* the record written when the city loop has finished
CompletedCheckpoint ==
    [processedCities |-> << >>, currentCityIndex |-> 0, currentSearchTermIndex |-> 0,
     completedAt |-> TRUE]

\* the record saveCheckpoint(cityIndex, searchTermIndex) builds and stores
saveCheckpoint(processed, cityIndex, searchTermIndex) ==
    [processedCities |-> processed, currentCityIndex |-> cityIndex,
     currentSearchTermIndex |-> searchTermIndex, completedAt |-> FALSE]

(***************************************************************************)
(* Dedup Gate                                                              *)
(***************************************************************************)
shouldUseDedupe == input.persistDedupe
cooldownMs == input.cooldownDays * DayTicks

\* hasRecentPlace with the window closed at its far end (<= for <)
hasRecentPlaceClosed(p, readOk) ==
    IF ~shouldUseDedupe \/ cooldownMs = 0 THEN FALSE
    ELSE IF ~readOk THEN FALSE
    ELSE IF dedupeStore[p] = NoRec THEN FALSE
    ELSE (now - dedupeStore[p]) <= cooldownMs

\* hasRecentPlace(placeId); readOk is FALSE when dedupeStore.getValue throws
hasRecentPlace(p, readOk) ==
    IF ~shouldUseDedupe \/ cooldownMs = 0 THEN FALSE
    ELSE IF ~readOk THEN FALSE
    ELSE IF dedupeStore[p] = NoRec THEN FALSE
    ELSE (now - dedupeStore[p]) < cooldownMs

\* the gate without the test allPlaces.has(p.id)
isNewPlaceAlways(p) == TRUE

\* the test that lets a candidate into allPlaces and the batch
isNewPlace(p) == p \notin allPlaces

NoGate == [p |-> 0, verdict |-> "none", recent |-> FALSE, readOk |-> TRUE, seen |-> FALSE]

\* no call of enrichPlaceDetails returned in the step
NoEnrich == [item |-> 0, failure |-> "none"]

\* no helper function is applied on its own during a run
NoCall == [fn |-> "none"]

(***************************************************************************)
(* Initial state: empty stores, first start of the actor                   *)
(***************************************************************************)
FreeSlots == [s \in 1 .. PoolLimit |-> [item |-> 0, st |-> "free"]]

InitRun ==
    /\ now = 0
    /\ cpStore = << >>
    /\ dedupeStore = [p \in Places |-> NoRec]
    /\ dataset = [r \in 1 .. MaxRuns |-> [p \in Places |-> 0]]
    /\ runNo = 1
    /\ donePrev = {}
    /\ pc = "start"
    /\ err = "none"
    /\ checkpoint = DefaultCheckpoint
    /\ apiCalls = 0
    /\ gi = 0
    /\ targetCenters = << >>
    /\ cityIdx = 0
    /\ cell = 1
    /\ termIdx = 0
    /\ pageNo = 0
    /\ fetched = 0
    /\ places = << >>
    /\ pIdx = 0
    /\ nextTok = FALSE
    /\ allPlaces = {}
    /\ batchLeads = << >>
    /\ poolNext = 1
    /\ slots = FreeSlots
    /\ cityFlush = FALSE
    /\ opened = {}
    /\ resume = [city |-> 0, term |-> 0]
    /\ limitHit = FALSE
    /\ geocoded = {}
    /\ searched = {}
    /\ doneNow = {}
    /\ marked = {}
    /\ lastGate = NoGate
    /\ lastEnrich = NoEnrich
    /\ lastReq = "none"

Init ==
    /\ input \in Inputs
    /\ world = [places |-> Places, pages |-> MaxPages]
    /\ InitRun
    /\ call = NoCall

(***************************************************************************)
(* Actor.main: start, geocoding of the cohort's cities                     *)
(***************************************************************************)
\* an exception handler that clears the stored checkpoint
FailReset(e) ==
    /\ pc' = "failed"
    /\ err' = e
    /\ cpStore' = << CompletedCheckpoint >>
    /\ UNCHANGED << dedupeStore, dataset >>

\* an exception leaves Actor.main: the run has failed, and nothing is
\* written to a store or to the dataset on the way out
Fail(e) ==
    /\ pc' = "failed"
    /\ err' = e
    /\ UNCHANGED stores

\* field index of the target center the city loop is at
index == targetCenters[cityIdx + 1]

\* Actor.main up to the checkpoint load: the input is validated, then the
\* rate limiter is built and the checkpoint store opened and read
Start ==
    /\ pc = "start"
    /\ IF validationError(input) # "none"
       THEN /\ Fail("input")
            /\ UNCHANGED << checkpoint, opened, resume >>
       ELSE /\ opened' = opened \cup {"scraper-checkpoints"}
            /\ checkpoint' = IF cpStore = << >> THEN DefaultCheckpoint ELSE cpStore[1]
            /\ resume' = [city |-> checkpoint'.currentCityIndex,
                          term |-> checkpoint'.currentSearchTermIndex]
            /\ pc' = "geocode"
            /\ UNCHANGED << stores, err >>
    /\ lastGate' = NoGate
    /\ lastEnrich' = NoEnrich
    /\ lastReq' = "none"
    /\ UNCHANGED << envVars, apiCalls, geoVars, posVars, pageVars, allPlaces,
                    batchLeads, poolVars, limitHit, geocoded, searched,
                    doneVars, marked >>

\* one iteration of the loop over selectedCities; geocodeLocation calls
\* rateLimiter.checkLimits(), which throws a TypeError when rateLimiter is null,
\* and then the geocoding API, which may find no result
Geocode ==
    /\ pc = "geocode"
    /\ gi < Len(selectedCities)
    /\ IF gi < checkpoint.currentCityIndex
       THEN /\ gi' = gi + 1
            /\ lastReq' = "none"
            /\ UNCHANGED << stores, pc, err, apiCalls, targetCenters, limitHit, geocoded >>
       ELSE IF ~rateLimiter
       THEN /\ Fail("noLimiter")
            /\ lastReq' = "none"
            /\ UNCHANGED << apiCalls, geoVars, limitHit, geocoded >>
       ELSE IF OverLimit(apiCalls)
       THEN /\ Fail("limit")
            /\ limitHit' = TRUE
            /\ lastReq' = "none"
            /\ UNCHANGED << apiCalls, geoVars, geocoded >>
       ELSE /\ apiCalls' = counted(apiCalls)
            /\ lastReq' = "geocode"
            /\ geocoded' = geocoded \cup {gi}
            /\ limitHit' = limitHit
            /\ \E found \in BOOLEAN :
                 IF found
                 THEN /\ targetCenters' = Append(targetCenters, gi)
                      /\ gi' = gi + 1
                      /\ UNCHANGED << stores, pc, err >>
                 ELSE /\ Fail("geocode")
                      /\ UNCHANGED geoVars
    /\ lastGate' = NoGate
    /\ lastEnrich' = NoEnrich
    /\ UNCHANGED << fixed, opened, checkpoint, posVars, pageVars, allPlaces, batchLeads,
                    poolVars, searched, doneVars, marked >>

\* end of the geocoding loop; the dedupe store is opened
GeocodeDone ==
    /\ pc = "geocode"
    /\ gi = Len(selectedCities)
    /\ pc' = "city"
    /\ cityIdx' = 0
    /\ opened' = IF shouldUseDedupe THEN opened \cup {"leads-dedupe"} ELSE opened
    /\ lastGate' = NoGate
    /\ lastEnrich' = NoEnrich
    /\ lastReq' = "none"
    /\ UNCHANGED << fixed, stores, err, checkpoint, apiCalls, geoVars, cell, termIdx,
                    pageVars, allPlaces, batchLeads, poolVars, limitHit, geocoded, searched, doneVars, marked >>

(***************************************************************************)
(* Actor.main: the city loop, the cell loop and the term loop              *)
(***************************************************************************)
\* head of the city loop: leave it and reset the stored checkpoint, skip a
\* city the checkpoint is past, or start the city's cells with an empty batch
City ==
    /\ pc = "city"
    /\ IF cityIdx >= Len(targetCenters)
       THEN /\ cpStore' = << CompletedCheckpoint >>
            /\ pc' = "done"
            /\ donePrev' = {}
            /\ doneNow' = {}
            /\ UNCHANGED << posVars, batchLeads >>
       ELSE IF index < checkpoint.currentCityIndex
       THEN /\ cityIdx' = cityIdx + 1
            /\ UNCHANGED << cpStore, pc, cell, termIdx, batchLeads, doneVars >>
       ELSE /\ cell' = 1
            /\ termIdx' = 0
            /\ batchLeads' = << >>
            /\ pc' = "term"
            /\ UNCHANGED << cpStore, cityIdx, doneVars >>
    /\ lastGate' = NoGate
    /\ lastEnrich' = NoEnrich
    /\ lastReq' = "none"
    /\ UNCHANGED << fixed, opened, dedupeStore, dataset, err, checkpoint, apiCalls, geoVars,
                    pageVars, allPlaces, poolVars, limitHit, geocoded, searched,
                    marked >>

\* the test 'search term was already processed in current city'
skipTerm ==
    index = checkpoint.currentCityIndex /\ termIdx < checkpoint.currentSearchTermIndex

\* head of the term loop inside the cell loop
Term ==
    /\ pc = "term"
    /\ IF termIdx >= NumTerms
       THEN IF cell < Len(geoboxCenters)
            THEN /\ cell' = cell + 1
                 /\ termIdx' = 0
                 /\ UNCHANGED << pc, pageNo, fetched, nextTok >>
            ELSE /\ pc' = "cityEnd"
                 /\ UNCHANGED << cell, termIdx, pageNo, fetched, nextTok >>
       ELSE IF skipTerm
       THEN /\ termIdx' = termIdx + 1
            /\ UNCHANGED << pc, cell, pageNo, fetched, nextTok >>
       ELSE /\ pageNo' = 0
            /\ fetched' = 0
            /\ nextTok' = FALSE
            /\ pc' = "page"
            /\ UNCHANGED << cell, termIdx >>
    /\ lastGate' = NoGate
    /\ lastEnrich' = NoEnrich
    /\ lastReq' = "none"
    /\ UNCHANGED << fixed, opened, stores, err, checkpoint, apiCalls, geoVars, cityIdx, places,
                    pIdx, allPlaces, batchLeads, poolVars, limitHit, geocoded,
                    searched, doneVars, marked >>

(***************************************************************************)
(* Search Paginator                                                        *)
(***************************************************************************)
\* a page arrives: its places and whether a next-page token came with it
ReceivePage(res, tok) ==
    /\ places' = res
    /\ pIdx' = 0
    /\ nextTok' = tok
    /\ pageNo' = IF world.pages = 0 THEN pageNo ELSE pageNo + 1
    /\ pc' = "places"

\* the provider's token runs out after world.pages pages; world.pages = 0 is a
\* provider that can go on returning a token for ever
Tokens == IF world.pages = 0 \/ pageNo + 1 < world.pages THEN BOOLEAN ELSE {FALSE}

\* head of the page loop: checkLimits, then the text search request, which
\* returns a page or throws
Page ==
    /\ pc = "page"
    /\ IF rateLimiter /\ OverLimit(apiCalls)
       THEN /\ Fail("limit")
            /\ limitHit' = TRUE
            /\ lastReq' = "none"
            /\ UNCHANGED << apiCalls, searched, places, pIdx, nextTok, pageNo >>
       ELSE /\ apiCalls' = IF rateLimiter THEN counted(apiCalls) ELSE apiCalls
            /\ lastReq' = "search"
            /\ searched' = searched \cup { << index, cell, termIdx >> }
            /\ UNCHANGED << stores, err, limitHit >>
            /\ \/ \E res \in PageResults, tok \in Tokens : ReceivePage(res, tok)
               \/ /\ pc' = "legacy"
                  /\ UNCHANGED << places, pIdx, nextTok, pageNo >>
    /\ lastGate' = NoGate
    /\ lastEnrich' = NoEnrich
    /\ UNCHANGED << fixed, opened, checkpoint, geoVars, posVars, fetched, allPlaces,
                    batchLeads, poolVars, geocoded, doneVars, marked >>

\* the catch block of the text search: the legacy nearby search request,
\* which returns a page or throws out of Actor.main
Legacy ==
    /\ pc = "legacy"
    /\ lastReq' = "legacy"
    /\ \/ /\ \E res \in PageResults, tok \in Tokens : ReceivePage(res, tok)
          /\ UNCHANGED << stores, err >>
       \/ /\ Fail("search")
          /\ UNCHANGED << places, pIdx, nextTok, pageNo >>
    /\ lastGate' = NoGate
    /\ lastEnrich' = NoEnrich
    /\ UNCHANGED << fixed, opened, checkpoint, apiCalls, geoVars, posVars, fetched,
                    allPlaces, batchLeads, poolVars, limitHit, geocoded, searched,
                    doneVars, marked >>

\* the place object built from a search result
NewLead(p) ==
    [placeId |-> p, searchTerm |-> termIdx, city |-> cityIdx,
     website |-> SearchWebsite(p), phone |-> SearchPhone(p), emailList |-> {},
     enriched |-> FALSE]

\* what the gate did with candidate p, and what the store held for it then
GateRecord(p, v, readOk) ==
    [p |-> p, verdict |-> v, readOk |-> readOk, seen |-> p \in allPlaces,
     recent |-> /\ dedupeStore[p] # NoRec
                /\ now - dedupeStore[p] < input.cooldownDays * DayTicks]

\* a flush that waits for one lead more than SAVE_INTERVAL
batchFullLate(leads) == Len(leads) > SAVE_INTERVAL

\* the test of the incremental save: batchLeads.length >= SAVE_INTERVAL
batchFull(leads) == Len(leads) >= SAVE_INTERVAL

\* one candidate of the page goes through the dedup gate; an accepted one
\* joins the batch, and a full batch is handed to the enrichment pool
Gate ==
    /\ pc = "places"
    /\ pIdx < Len(places)
    /\ pIdx' = pIdx + 1
    /\ lastReq' = "none"
    /\ lastEnrich' = NoEnrich
    /\ LET p == places[pIdx + 1] IN
       \E readOk \in (IF shouldUseDedupe /\ cooldownMs # 0 THEN BOOLEAN ELSE {TRUE}) :
         IF hasRecentPlace(p, readOk)
         THEN /\ lastGate' = GateRecord(p, "cooldown", readOk)
              /\ UNCHANGED << pc, allPlaces, batchLeads, poolVars >>
         ELSE IF ~isNewPlace(p)
         THEN /\ lastGate' = GateRecord(p, "duplicate", readOk)
              /\ UNCHANGED << pc, allPlaces, batchLeads, poolVars >>
         ELSE /\ lastGate' = GateRecord(p, "accepted", readOk)
              /\ allPlaces' = allPlaces \cup {p}
              /\ batchLeads' = Append(batchLeads, NewLead(p))
              /\ IF batchFull(batchLeads')
                 THEN /\ pc' = "pool"
                      /\ poolNext' = 1
                      /\ cityFlush' = FALSE
                      /\ slots' = slots
                 ELSE UNCHANGED << pc, poolVars >>
    /\ UNCHANGED << fixed, opened, stores, err, checkpoint, apiCalls, geoVars, posVars, pageNo,
                    fetched, places, nextTok, limitHit, geocoded, searched,
                    doneVars, marked >>

\* end of the page: fetched and pageToken are updated and the loop test made;
\* the variables of a block that is left take their initial values again
PageEnd ==
    /\ pc = "places"
    /\ pIdx = Len(places)
    /\ LET total == fetched + Len(places) IN
       IF nextTok /\ total < input.maxPerTerm
       THEN /\ fetched' = total
            /\ pc' = "page"
            /\ UNCHANGED << pageNo, nextTok >>
       ELSE /\ fetched' = 0
            /\ pageNo' = 0
            /\ nextTok' = FALSE
            /\ pc' = "termDone"
    /\ places' = << >>
    /\ pIdx' = 0
    /\ lastGate' = NoGate
    /\ lastEnrich' = NoEnrich
    /\ lastReq' = "none"
    /\ UNCHANGED << fixed, opened, stores, err, checkpoint, apiCalls, geoVars, posVars,
                    allPlaces, batchLeads, poolVars, limitHit, geocoded, searched,
                    doneVars, marked >>

\* after the page loop of a term: saveCheckpoint(cityIdx, termIdx + 1)
TermDone ==
    /\ pc = "termDone"
    /\ checkpoint' = saveCheckpoint(checkpoint.processedCities, cityIdx, termIdx + 1)
    /\ cpStore' = << checkpoint' >>
    /\ termIdx' = termIdx + 1
    /\ pc' = "term"
    /\ lastGate' = NoGate
    /\ lastEnrich' = NoEnrich
    /\ lastReq' = "none"
    /\ UNCHANGED << fixed, opened, dedupeStore, dataset, err, apiCalls, geoVars, cityIdx, cell,
                    pageVars, allPlaces, batchLeads, poolVars, limitHit, geocoded, searched, doneVars, marked >>

(***************************************************************************)
(* Contact Enricher: asyncPool(2, batchLeads, enrichPlaceDetails then      *)
(* markPlaceSeen)                                                          *)
(***************************************************************************)
Slots == 1 .. PoolLimit
running == { s \in Slots : slots[s].st # "free" }

\* the outer catch of enrichPlaceDetails
Wiped(lead) ==
    [lead EXCEPT !.website = FALSE, !.phone = FALSE, !.emailList = {}, !.enriched = TRUE]

\* asyncPool starts the next item when fewer than poolLimit are executing
\* (it counts them only if poolLimit <= array.length); enrichPlaceDetails
\* begins with checkLimits, whose cost test throws into the outer catch,
\* and which otherwise increments the counter at once or after a sleep
PoolLaunch ==
    /\ pc = "pool"
    /\ poolNext <= Len(batchLeads)
    /\ running # Slots
    /\ (PoolLimit <= Len(batchLeads)) => Cardinality(running) < PoolLimit
    /\ LET s == CHOOSE f \in Slots \ running : \A g \in Slots \ running : f <= g IN
       IF ~rateLimiter
       THEN /\ UNCHANGED << limitHit, batchLeads, apiCalls >>
            /\ lastEnrich' = NoEnrich
            /\ slots' = [slots EXCEPT ![s] = [item |-> poolNext, st |-> "enrich"]]
       ELSE IF OverLimit(apiCalls)
       THEN /\ limitHit' = TRUE
            /\ batchLeads' = [batchLeads EXCEPT ![poolNext] = Wiped(@)]
            /\ slots' = [slots EXCEPT ![s] = [item |-> poolNext, st |-> "mark"]]
            /\ apiCalls' = apiCalls
            /\ lastEnrich' = [item |-> poolNext, failure |-> "limit"]
       ELSE /\ UNCHANGED << limitHit, batchLeads >>
            /\ lastEnrich' = NoEnrich
            /\ \/ /\ slots' = [slots EXCEPT ![s] = [item |-> poolNext, st |-> "sleep"]]
                  /\ apiCalls' = apiCalls
               \/ /\ slots' = [slots EXCEPT ![s] = [item |-> poolNext, st |-> "enrich"]]
                  /\ apiCalls' = counted(apiCalls)
    /\ poolNext' = poolNext + 1
    /\ lastGate' = NoGate
    /\ lastReq' = "none"
    /\ UNCHANGED << fixed, opened, stores, pc, err, checkpoint, geoVars, posVars, pageVars,
                    allPlaces, cityFlush, geocoded, searched, doneVars, marked >>

\* checkLimits after its sleep: lastCallTime is set and the counter incremented
PoolWake(s) ==
    /\ pc = "pool"
    /\ slots[s].st = "sleep"
    /\ apiCalls' = counted(apiCalls)
    /\ slots' = [slots EXCEPT ![s].st = "enrich"]
    /\ lastGate' = NoGate
    /\ lastEnrich' = NoEnrich
    /\ lastReq' = "none"
    /\ UNCHANGED << fixed, opened, stores, pc, err, checkpoint, geoVars, posVars, pageVars,
                    allPlaces, batchLeads, poolNext, cityFlush, limitHit, geocoded, searched, doneVars, marked >>

\* what the place-details request returns: website and phone, or neither
DetailsResults == { << TRUE, TRUE >>, << FALSE, FALSE >> }

\* kinds of contact in an emailList: an e-mail address, a social media handle
Contacts == {"email", "social"}

\* the website fetch with an inner catch that keeps what was found so far
WebsiteOutcomesKept ==
    { [emailList |-> c, failure |-> "homepage"] : c \in SUBSET Contacts }
    \cup { [emailList |-> c, failure |-> "none"] : c \in SUBSET Contacts }
    \cup { [emailList |-> c, failure |-> "contact"] : c \in SUBSET {"social"} }

\* enrichPlaceDetails from the website fetch on, for a place with a website:
\* the homepage fetch or its parsing throws into the inner catch; or the
\* homepage yields raw e-mails, of which filterBusinessEmails keeps some, and
\* social handles, which it keeps; or it yields no raw e-mail, and the first
\* contact/about link, if there is one, is fetched: that fetch may throw
\* into its own catch, which leaves the homepage's social handles
WebsiteOutcomes ==
    { [emailList |-> {}, failure |-> "homepage"] }
    \cup { [emailList |-> c, failure |-> "none"] : c \in SUBSET Contacts }
    \cup { [emailList |-> c, failure |-> "contact"] : c \in SUBSET {"social"} }

\* the test of the details backfill with the phone left out
needsDetailsNoWebsite(lead) == ~lead.website

\* the test of the details backfill: !place.website && !place.phone
needsDetails(lead) == ~lead.website /\ ~lead.phone

\* the outcomes of enrichPlaceDetails(lead) after checkLimits: the lead as it
\* is left, and which request failed
EnrichOutcomes(lead) ==
    LET \* the place-details request, made when website and phone are missing
        afterDetails ==
            IF needsDetails(lead)
            THEN { [lead |-> [lead EXCEPT !.website = r[1], !.phone = r[2]],
                    failure |-> "none"] : r \in DetailsResults }
                 \cup { [lead |-> Wiped(lead), failure |-> "details"] }
            ELSE { [lead |-> lead, failure |-> "none"] }
        afterWebsite(d) ==
            IF d.failure # "none" THEN { d }
            ELSE IF d.lead.website
            THEN { [lead |-> [d.lead EXCEPT !.emailList = w.emailList],
                    failure |-> w.failure] : w \in WebsiteOutcomes }
            ELSE { [lead |-> [d.lead EXCEPT !.emailList = {}], failure |-> "none"] }
    IN  { [lead |-> [o.lead EXCEPT !.enriched = TRUE], failure |-> o.failure] :
            o \in UNION { afterWebsite(d) : d \in afterDetails } }

\* enrichPlaceDetails after checkLimits: the place-details request when the
\* place has neither website nor phone (it may throw into the outer catch),
\* then the website fetches, which are not priced
PoolEnrich(s) ==
    /\ pc = "pool"
    /\ slots[s].st = "enrich"
    /\ LET k == slots[s].item
           lead == batchLeads[k] IN
       /\ lastReq' = IF needsDetails(lead) THEN "details" ELSE "none"
       /\ \E o \in EnrichOutcomes(lead) :
            /\ batchLeads' = [batchLeads EXCEPT ![k] = o.lead]
            /\ lastEnrich' = [item |-> k, failure |-> o.failure]
    /\ slots' = [slots EXCEPT ![s].st = "mark"]
    /\ lastGate' = NoGate
    /\ UNCHANGED << fixed, opened, stores, pc, err, checkpoint, apiCalls, geoVars, posVars,
                    pageVars, allPlaces, poolNext, cityFlush, limitHit, geocoded, searched,
                    doneVars, marked >>

\* markPlaceSeen(placeId): a write of the cooldown record that may fail silently
markPlaceSeen(p, writeOk) ==
    IF shouldUseDedupe /\ writeOk
    THEN [dedupeStore EXCEPT ![p] = now]
    ELSE dedupeStore

\* the second half of the pool's iterator; the slot is free afterwards
PoolMark(s) ==
    /\ pc = "pool"
    /\ slots[s].st = "mark"
    /\ LET p == batchLeads[slots[s].item].placeId IN
       \E writeOk \in (IF shouldUseDedupe THEN BOOLEAN ELSE {TRUE}) :
         /\ dedupeStore' = markPlaceSeen(p, writeOk)
         /\ marked' = IF shouldUseDedupe /\ writeOk THEN marked \cup {p} ELSE marked
    /\ slots' = [slots EXCEPT ![s] = [item |-> 0, st |-> "free"]]
    /\ lastGate' = NoGate
    /\ lastEnrich' = NoEnrich
    /\ lastReq' = "none"
    /\ UNCHANGED << fixed, opened, cpStore, dataset, pc, err, checkpoint, apiCalls, geoVars,
                    posVars, pageVars, allPlaces, batchLeads, poolNext, cityFlush,
                    limitHit, geocoded, searched, doneVars >>

\* Promise.all(ret): every item was started and has finished
PoolJoin ==
    /\ pc = "pool"
    /\ poolNext > Len(batchLeads)
    /\ running = {}
    /\ pc' = "save"
    /\ poolNext' = 1
    /\ lastGate' = NoGate
    /\ lastEnrich' = NoEnrich
    /\ lastReq' = "none"
    /\ UNCHANGED << fixed, opened, stores, err, checkpoint, apiCalls, geoVars, posVars, pageVars,
                    allPlaces, batchLeads, slots, cityFlush, limitHit, geocoded,
                    searched, doneVars, marked >>

(***************************************************************************)
(* Output Sink                                                             *)
(***************************************************************************)
\* a save that pushes every lead of the batch twice
saveLeadsIncrementalTwice(leads) ==
    [dataset EXCEPT ![runNo] =
        [p \in Places |->
            @[p] + 2 * Cardinality({ k \in DOMAIN leads : leads[k].placeId = p })]]

\* saveLeadsIncremental(leads): the dataset after Actor.pushData; the model
\* keeps, for each run, how many records it pushed for each place
saveLeadsIncremental(leads) ==
    [dataset EXCEPT ![runNo] =
        [p \in Places |-> @[p] + Cardinality({ k \in DOMAIN leads : leads[k].placeId = p })]]

\* the batch is written; the end-of-city batch is cleared at once
Save ==
    /\ pc = "save"
    /\ dataset' = saveLeadsIncremental(batchLeads)
    /\ IF cityFlush
       THEN /\ batchLeads' = << >>
            /\ pc' = "cityDone"
       ELSE /\ batchLeads' = batchLeads
            /\ pc' = "saveCp"
    /\ lastGate' = NoGate
    /\ lastEnrich' = NoEnrich
    /\ lastReq' = "none"
    /\ UNCHANGED << fixed, opened, cpStore, dedupeStore, err, checkpoint, apiCalls, geoVars,
                    posVars, pageVars, allPlaces, poolVars, limitHit, geocoded,
                    searched, doneVars, marked >>

\* after a full batch: saveCheckpoint(cityIdx, termIdx), the batch is cleared
\* and the loop over the page's places goes on
SaveCp ==
    /\ pc = "saveCp"
    /\ checkpoint' = saveCheckpoint(checkpoint.processedCities, cityIdx, termIdx)
    /\ cpStore' = << checkpoint' >>
    /\ batchLeads' = << >>
    /\ pc' = "places"
    /\ lastGate' = NoGate
    /\ lastEnrich' = NoEnrich
    /\ lastReq' = "none"
    /\ UNCHANGED << fixed, opened, dedupeStore, dataset, err, apiCalls, geoVars, posVars,
                    pageVars, allPlaces, poolVars, limitHit, geocoded, searched,
                    doneVars, marked >>

\* after the cells of a city: a non-empty batch goes to the pool
CityEnd ==
    /\ pc = "cityEnd"
    /\ IF Len(batchLeads) > 0
       THEN /\ pc' = "pool"
            /\ poolNext' = 1
            /\ cityFlush' = TRUE
            /\ slots' = slots
       ELSE /\ pc' = "cityDone"
            /\ UNCHANGED poolVars
    /\ lastGate' = NoGate
    /\ lastEnrich' = NoEnrich
    /\ lastReq' = "none"
    /\ UNCHANGED << fixed, opened, stores, err, checkpoint, apiCalls, geoVars, posVars, pageVars,
                    allPlaces, batchLeads, limitHit, geocoded, searched,
                    doneVars, marked >>

\* checkpoint.processedCities.push(index || cityIdx); saveCheckpoint(cityIdx + 1, 0)
CityDone ==
    /\ pc = "cityDone"
    /\ LET pushed == IF index # 0 THEN index ELSE cityIdx IN
       /\ checkpoint' = saveCheckpoint(Append(checkpoint.processedCities, pushed),
                                       cityIdx + 1, 0)
       /\ doneNow' = doneNow \cup {pushed}
    /\ cpStore' = << checkpoint' >>
    /\ cityIdx' = cityIdx + 1
    /\ pc' = "city"
    /\ lastGate' = NoGate
    /\ lastEnrich' = NoEnrich
    /\ lastReq' = "none"
    /\ UNCHANGED << fixed, opened, dedupeStore, dataset, err, apiCalls, geoVars, cell, termIdx,
                    pageVars, allPlaces, batchLeads, poolVars, limitHit, geocoded, searched, donePrev, marked >>

(***************************************************************************)
(* The environment: time passes before a start of the actor, and the actor *)
(* is started again over the same stores, after a run has ended or when it *)
(* is interrupted, at any point                                            *)
(***************************************************************************)
Tick ==
    /\ pc = "start"
    /\ now < MaxClock
    /\ now' = now + 1
    /\ UNCHANGED << input, world, runNo, opened, resume, stores, pc, err, checkpoint, apiCalls, geoVars,
                    posVars, pageVars, allPlaces, batchLeads, poolVars, limitHit, geocoded, searched, doneVars, marked, lastGate, lastEnrich, lastReq, call >>

\* a new start of the actor over the same stores
StartAgain(maxRuns) ==
    /\ runNo < maxRuns
    /\ runNo' = runNo + 1
    /\ donePrev' = donePrev \cup doneNow
    /\ pc' = "start"
    /\ err' = "none"
    /\ checkpoint' = DefaultCheckpoint
    /\ apiCalls' = 0
    /\ gi' = 0
    /\ targetCenters' = << >>
    /\ cityIdx' = 0
    /\ cell' = 1
    /\ termIdx' = 0
    /\ pageNo' = 0
    /\ fetched' = 0
    /\ places' = << >>
    /\ pIdx' = 0
    /\ nextTok' = FALSE
    /\ allPlaces' = {}
    /\ batchLeads' = << >>
    /\ poolNext' = 1
    /\ slots' = FreeSlots
    /\ cityFlush' = FALSE
    /\ opened' = {}
    /\ resume' = [city |-> 0, term |-> 0]
    /\ limitHit' = FALSE
    /\ geocoded' = {}
    /\ searched' = {}
    /\ doneNow' = {}
    /\ marked' = {}
    /\ lastGate' = NoGate
    /\ lastEnrich' = NoEnrich
    /\ lastReq' = "none"
    /\ UNCHANGED << world, now, stores, call >>

\* the actor is started again with the same input
Restart(maxRuns) == StartAgain(maxRuns) /\ UNCHANGED input

\* most runs of a schedule that changes the cohort
CohortRuns == 2

\* the actor is started again with the index of another cohort as cityCohortIndex
RestartCohort(maxRuns) ==
    /\ StartAgain(maxRuns)
    /\ \E c \in 0 .. input.cohortCount - 1 :
          /\ c # input.cityCohortIndex
          /\ input' = [input EXCEPT !.cityCohortIndex = c]

\* the steps of one run of Actor.main
Run ==
    \/ Start
    \/ Geocode
    \/ GeocodeDone
    \/ City
    \/ Term
    \/ Page
    \/ Legacy
    \/ Gate
    \/ PageEnd
    \/ TermDone
    \/ PoolLaunch
    \/ \E s \in Slots : PoolWake(s)
    \/ \E s \in Slots : PoolEnrich(s)
    \/ \E s \in Slots : PoolMark(s)
    \/ PoolJoin
    \/ Save
    \/ SaveCp
    \/ CityEnd
    \/ CityDone

(***************************************************************************)
(* Specifications                                                          *)
(***************************************************************************)
\* one run of the actor over empty stores, for every input
Next == Run

Spec == Init /\ [][Next]_vars

\* interrupted and restarted runs over a cohort of two cities, without the
\* cooldown store; the provider serves one page for a query
InitResume ==
    /\ input \in { i \in Inputs : /\ i.maxDailyCost = DefaultCost
                                  /\ i.cityCohortIndex = 0
                                  /\ ~i.persistDedupe
                                  /\ i.cooldownDays = 0 }
    /\ world = [places |-> Places, pages |-> 1]
    /\ InitRun
    /\ call = NoCall

NextResume == Run \/ Restart(MaxRuns)

SpecResume == InitResume /\ [][NextResume]_vars

\* one run for each input with a part missing, over empty stores
InitInput ==
    /\ input \in RawInputs
    /\ world = [places |-> Places, pages |-> MaxPages]
    /\ InitRun
    /\ call = NoCall

SpecInput == InitInput /\ [][Next]_vars

\* a run and a later run over a cohort of one city, with the cooldown store
\* and the time that passes between the two
InitCooldown ==
    /\ input \in { i \in Inputs : /\ i.maxDailyCost = DefaultCost
                                  /\ i.cityCohortIndex = 1
                                  /\ i.radiusMeters = CellCeiling }
    /\ world = [places |-> Places, pages |-> MaxPages]
    /\ InitRun
    /\ call = NoCall

NextCooldown == Run \/ Tick \/ Restart(CooldownRuns)

SpecCooldown == InitCooldown /\ [][NextCooldown]_vars

(***************************************************************************)
(* The helper functions applied on their own                               *)
(***************************************************************************)
\* the variables of a run, at rest while a helper is applied on its own
program == << input, world, now, cpStore, dedupeStore, dataset, runNo, pc, err, checkpoint,
              apiCalls, gi, targetCenters, cityIdx, cell, termIdx, pageNo, fetched,
              places, pIdx, nextTok, allPlaces, batchLeads, poolNext, slots, cityFlush,
              opened, resume, limitHit, geocoded, searched, donePrev, doneNow, marked,
              lastGate, lastEnrich, lastReq >>

InitIdle ==
    /\ input \in {i \in Inputs : /\ i.maxDailyCost = DefaultCost /\ i.cityCohortIndex = 0
                                  /\ i.radiusMeters = CellCeiling
                                  /\ ~i.persistDedupe /\ i.cooldownDays = 0}
    /\ world = [places |-> Places, pages |-> 1]
    /\ InitRun

\* longest city list the cohorts are cut from
MaxCityList == 8

\* a list of n cities and a cohortCount between 1 and n, no cohort cut yet
CohortCalls ==
    UNION {{[fn |-> "getCitiesForCohort", allCities |-> [j \in 1 .. n |-> j - 1],
             cohortCount |-> k, cohortIndex |-> 0, cohorts |-> << >>] : k \in 1 .. n} :
           n \in 1 .. MaxCityList}

InitCohort ==
    /\ InitIdle
    /\ call \in CohortCalls

\* the cohort of the next index is cut: getCitiesForCohort(list, i, k)
CutCohort ==
    /\ call.fn = "getCitiesForCohort"
    /\ call.cohortIndex < call.cohortCount
    /\ call' = [call EXCEPT
                    !.cohorts = Append(@, getCitiesForCohort(call.allCities, call.cohortIndex,
                                                            call.cohortCount)),
                    !.cohortIndex = @ + 1]
    /\ UNCHANGED program

NextCohort == CutCohort

SpecCohort == InitCohort /\ [][NextCohort]_vars

(***************************************************************************)
(* helpers.js: normalizePhone, a string being a sequence of characters     *)
(***************************************************************************)
Digits == {"0", "1", "2", "3", "4", "5", "6", "7", "8", "9"}

\* phone.replace(/\D/g, '')
StripNonDigits(str) == SelectSeq(str, LAMBDA c : c \in Digits)

\* normalizePhone that leaves the other characters in
normalizePhoneUnstripped(phone) ==
    IF phone = << >> THEN << >>
    ELSE LET stripped == phone
             digits == IF Len(stripped) = 10 THEN <<"1">> \o stripped ELSE stripped
         IN  IF Len(digits) = 11 /\ digits[1] = "1" THEN <<"+">> \o digits
             ELSE IF Len(digits) >= 2 /\ digits[1] = "0" /\ digits[2] = "0"
                  THEN <<"+">> \o SubSeq(digits, 3, Len(digits))
                  ELSE <<"+">> \o digits

\* normalizePhone without the rule for ten digits
normalizePhoneNoTen(phone) ==
    IF phone = << >> THEN << >>
    ELSE LET digits == StripNonDigits(phone)
         IN  IF Len(digits) = 11 /\ digits[1] = "1" THEN <<"+">> \o digits
             ELSE IF Len(digits) >= 2 /\ digits[1] = "0" /\ digits[2] = "0"
                  THEN <<"+">> \o SubSeq(digits, 3, Len(digits))
                  ELSE <<"+">> \o digits

\* normalizePhone(phone): '' for an empty phone, else '+' and digits
normalizePhone(phone) ==
    IF phone = << >> THEN << >>
    ELSE LET stripped == StripNonDigits(phone)
             digits == IF Len(stripped) = 10 THEN <<"1">> \o stripped ELSE stripped
         IN  IF Len(digits) = 11 /\ digits[1] = "1" THEN <<"+">> \o digits
             ELSE IF Len(digits) >= 2 /\ digits[1] = "0" /\ digits[2] = "0"
                  THEN <<"+">> \o SubSeq(digits, 3, Len(digits))
                  ELSE <<"+">> \o digits

\* longest of the strings tried character by character
MaxPhoneLen == 4

PhoneChars == {"0", "1", "2", "+", "-"}

\* every string over PhoneChars up to MaxPhoneLen characters, '' included
ShortPhones == UNION {[1 .. n -> PhoneChars] : n \in 0 .. MaxPhoneLen}

\* ten-digit national numbers, with each leading pair over 0, 1 and 4
USNumbers ==
    {<<a, b>> \o <<"5", "5", "5", "5", "1", "2", "3", "4">> : a \in {"0", "1", "4"}, b \in {"0", "1", "4"}}

\* the ways a ten-digit number is written: 4155551234, 415 555 1234,
\* 415.555.1234, 415-555-1234, (415) 555-1234
Styles == {"bare", "spaces", "dots", "dashes", "parens"}

Rendering(d, style) ==
    LET a == SubSeq(d, 1, 3)
        b == SubSeq(d, 4, 6)
        c == SubSeq(d, 7, 10)
    IN  CASE style = "bare" -> d
          [] style = "spaces" -> a \o <<" ">> \o b \o <<" ">> \o c
          [] style = "dots" -> a \o <<".">> \o b \o <<".">> \o c
          [] style = "dashes" -> a \o <<"-">> \o b \o <<"-">> \o c
          [] style = "parens" -> <<"(">> \o a \o <<")", " ">> \o b \o <<"-">> \o c

\* nothing, 1 or +1 before the number, set off by a space or not
USPrefixes == {<< >>, <<"1">>, <<"+", "1">>, <<"1", " ">>, <<"+", "1", " ">>}

USRenderings(d) == {pre \o Rendering(d, style) : pre \in USPrefixes, style \in Styles}

\* numbers written with another prefix: 00, 0, 44, +44
OtherPrefixes == {<<"0", "0">>, <<"0">>, <<"4", "4">>, <<"+", "4", "4", " ">>}

PhoneInputs ==
    ShortPhones
    \cup UNION {USRenderings(d) : d \in USNumbers}
    \cup {pre \o Rendering(d, style) : pre \in OtherPrefixes, d \in USNumbers, style \in Styles}

InitPhone ==
    /\ InitIdle
    /\ call \in [fn : {"normalizePhone"}, phone : PhoneInputs, returned : {FALSE}, ret : {<< >>}]

\* normalizePhone is applied to the string
CallNormalizePhone ==
    /\ call.fn = "normalizePhone"
    /\ ~call.returned
    /\ call' = [call EXCEPT !.returned = TRUE, !.ret = normalizePhone(call.phone)]
    /\ UNCHANGED program

NextPhone == CallNormalizePhone

SpecPhone == InitPhone /\ [][NextPhone]_vars

(***************************************************************************)
(* helpers.js: dedupePlaces                                                *)
(***************************************************************************)
\* dedupePlaces where a later record of a placeId replaces the one held
dedupePlacesLast(arr) ==
    LET map[n \in 0 .. Len(arr)] ==
            IF n = 0 THEN << >>
            ELSE IF \E k \in 1 .. Len(map[n - 1]) : map[n - 1][k].placeId = arr[n].placeId
                 THEN [k \in 1 .. Len(map[n - 1]) |->
                          IF map[n - 1][k].placeId = arr[n].placeId THEN arr[n] ELSE map[n - 1][k]]
                 ELSE Append(map[n - 1], arr[n])
    IN  map[Len(arr)]

\* dedupePlaces(arr): map[n] is the Map, in insertion order, after n records
dedupePlaces(arr) ==
    LET map[n \in 0 .. Len(arr)] ==
            IF n = 0 THEN << >>
            ELSE IF \E k \in 1 .. Len(map[n - 1]) : map[n - 1][k].placeId = arr[n].placeId
                 THEN map[n - 1]
                 ELSE Append(map[n - 1], arr[n])
    IN  map[Len(arr)]

\* longest list of place records
MaxArr == 4

PlaceRecords == [placeId : {"abc", "def"}, name : {"A", "A2"}]

InitDedupe ==
    /\ InitIdle
    /\ call \in [fn : {"dedupePlaces"},
                 arr : UNION {[1 .. n -> PlaceRecords] : n \in 0 .. MaxArr},
                 returned : {FALSE}, ret : {<< >>}, retTwice : {<< >>}, retAgain : {<< >>}]

\* dedupePlaces is applied to the list, to the list followed by itself and
\* to its own result
CallDedupePlaces ==
    /\ call.fn = "dedupePlaces"
    /\ ~call.returned
    /\ call' = [call EXCEPT !.returned = TRUE,
                            !.ret = dedupePlaces(call.arr),
                            !.retTwice = dedupePlaces(call.arr \o call.arr),
                            !.retAgain = dedupePlaces(dedupePlaces(call.arr))]
    /\ UNCHANGED program

NextDedupe == CallDedupePlaces

SpecDedupe == InitDedupe /\ [][NextDedupe]_vars

(***************************************************************************)
(* helpers.js: strings and the tests the regular expressions make          *)
(***************************************************************************)
Char(str, i) == SubSeq(str, i, i)
CharsOf(str) == {Char(str, i) : i \in 1 .. Len(str)}
AllChars(str, class) == \A i \in 1 .. Len(str) : Char(str, i) \in class

\* String.prototype.includes, startsWith, endsWith
Includes(str, part) ==
    \E i \in 1 .. (Len(str) - Len(part) + 1) : SubSeq(str, i, i + Len(part) - 1) = part
StartsWith(str, part) == Len(part) <= Len(str) /\ SubSeq(str, 1, Len(part)) = part
EndsWith(str, part) ==
    Len(part) <= Len(str) /\ SubSeq(str, Len(str) - Len(part) + 1, Len(str)) = part

LowerLetters == "abcdefghijklmnopqrstuvwxyz"
UpperLetters == "ABCDEFGHIJKLMNOPQRSTUVWXYZ"
Lower == CharsOf(LowerLetters)
Upper == CharsOf(UpperLetters)
Alnum == Lower \cup Upper \cup Digits
Hex == Digits \cup CharsOf("abcdef")

\* String.prototype.toLowerCase
toLowerCase(str) ==
    LET low(c) == IF c \in Upper
                  THEN Char(LowerLetters, CHOOSE k \in 1 .. Len(UpperLetters) : Char(UpperLetters, k) = c)
                  ELSE c
        out[n \in 0 .. Len(str)] == IF n = 0 THEN "" ELSE out[n - 1] \o low(Char(str, n))
    IN  out[Len(str)]

\* position of the first occurrence of a character, 0 if there is none
IndexOf(str, c) ==
    IF \E i \in 1 .. Len(str) : Char(str, i) = c
    THEN CHOOSE i \in 1 .. Len(str) : Char(str, i) = c /\ \A j \in 1 .. (i - 1) : Char(str, j) # c
    ELSE 0

\* str.split(sep)[0] and str.split(sep)[1] ('' where the code has undefined)
SplitFirst(str, sep) == IF IndexOf(str, sep) = 0 THEN str ELSE SubSeq(str, 1, IndexOf(str, sep) - 1)
AfterFirst(str, sep) == IF IndexOf(str, sep) = 0 THEN "" ELSE SubSeq(str, IndexOf(str, sep) + 1, Len(str))
SplitSecond(str, sep) == SplitFirst(AfterFirst(str, sep), sep)

\* the ways to cut str at one occurrence of sep: <<left, right>>
Splits(str, sep) ==
    {<<SubSeq(str, 1, i - 1), SubSeq(str, i + 1, Len(str))>> :
        i \in {j \in 1 .. Len(str) : Char(str, j) = sep}}

\* [a-z]+ and [a-z]{2,15}
LowerWord(str) == Len(str) >= 1 /\ AllChars(str, Lower)
NameWord(str) == Len(str) >= 2 /\ Len(str) <= 15 /\ AllChars(str, Lower)

(***************************************************************************)
(* helpers.js: the tables and predicates of filterBusinessEmails           *)
(***************************************************************************)
\* EMAIL_REGEX.test(email)
isValidEmailFormat(email) ==
    LET edge(str) == /\ Len(str) >= 1
                     /\ Char(str, 1) \in Alnum
                     /\ Char(str, Len(str)) \in Alnum
        localOk(str) == edge(str) /\ AllChars(str, Alnum \cup {".", "_", "-"})
        hostOk(str) == edge(str) /\ AllChars(str, Alnum \cup {".", "-"})
        tldOk(str) == Len(str) >= 2 /\ AllChars(str, Lower \cup Upper)
        domainOk(str) == (\E cut \in Splits(str, ".") : hostOk(cut[1]) /\ tldOk(cut[2]))
    IN  (\E cut \in Splits(email, "@") : localOk(cut[1]) /\ domainOk(cut[2]))

DISPOSABLE_DOMAINS ==
    {"10minutemail.com", "guerrillamail.com", "mailinator.com", "tempmail.org",
     "throwaway.email", "yopmail.com", "temp-mail.org", "sharklasers.com",
     "getairmail.com", "mailnesia.com", "tempr.email", "tmpmail.org",
     "maildrop.cc", "spam4.me", "fakeinbox.com", "mailmetrash.com",
     "trashmail.com", "mailnull.com", "spamspot.com", "spam.la",
     "example.com", "example.org", "test.com", "demo.com", "sample.com",
     "placeholder.com", "domain.com", "yourdomain.com", "company.com",
     "mail.com", "email.com", "fakemail.com"}

isDisposableDomain(domain) ==
    \E disposable \in DISPOSABLE_DOMAINS : Includes(toLowerCase(domain), toLowerCase(disposable))

PERSONAL_PROVIDERS ==
    {"gmail.com", "yahoo.com", "outlook.com", "hotmail.com", "aol.com",
     "icloud.com", "protonmail.com", "zoho.com", "yandex.com", "mail.ru",
     "live.com", "msn.com", "me.com", "mac.com"}

AGGREGATOR_DOMAINS ==
    {"weomedia.com", "wixpress.com", "sentry-next.wixpress.com", "sentry.wixpress.com",
     "sentry.io", "wordpress.com", "godaddy.com", "mailchimp.com", "hubspot.com",
     "squareup.com", "weebly.com", "shopify.com", "squarespace.com",
     "google-analytics.com", "googletagmanager.com"}

isBusinessEmailPattern(email) ==
    LET domain == SplitSecond(toLowerCase(email), "@")
        local0 == SplitFirst(email, "@")
        rest0 == AfterFirst(email, "@")
        allTlds == {"com", "org", "net", "co", "biz", "io", "ai", "app"}
        company(str) == LowerWord(str)
        company123(str) == /\ Len(str) >= 1 /\ Char(str, 1) \in Lower
                           /\ AllChars(str, Lower \cup Digits)
        nameAt(Host(_), tlds) ==
            /\ IndexOf(email, "@") > 0
            /\ LowerWord(local0)
            /\ \E tld \in tlds :
                    /\ EndsWith(rest0, "." \o tld)
                    /\ Host(SubSeq(rest0, 1, Len(rest0) - Len(tld) - 1))
        businessPatterns ==
            \/ (\E cut \in Splits(local0, ".") : LowerWord(cut[1]) /\ LowerWord(cut[2])) /\ IndexOf(email, "@") > 0
            \/ nameAt(company, allTlds)
            \/ nameAt(company123, allTlds)
            \/ nameAt(company, {"co", "biz", "io", "ai", "app"})
            \/ nameAt(company, {"com", "org", "net"})
        businessDomains ==
            {"company.com", "business.com", "corp.com", "inc.com", "llc.com",
             "enterprise.com", "firm.com", "group.com", "team.com", "studio.com",
             "clinic.com", "salon.com", "spa.com", "gym.com", "fitness.com",
             "restaurant.com", "cafe.com", "bar.com", "pub.com", "shop.com",
             "store.com", "market.com", "office.com", "agency.com", "consulting.com"}
        hasBusinessDomain == \E bd \in businessDomains : Includes(domain, bd)
        personalWords == {"gmail", "yahoo", "outlook", "hotmail", "aol", "icloud", "protonmail",
                          "zoho", "yandex", "mail.ru", "live", "msn", "me", "mac"}
        hasBusinessDomainPattern ==
            /\ ~ \E w \in personalWords : Includes(domain, w)
            /\ \E tld \in allTlds : EndsWith(domain, "." \o tld)
        isPersonalProvider == domain \in PERSONAL_PROVIDERS
    IN  ~isPersonalProvider /\ (businessPatterns \/ hasBusinessDomain \/ hasBusinessDomainPattern)

looksLikePersonNameLocalPart(local) ==
    LET initial(str) == Len(str) = 1 /\ AllChars(str, Lower)
        initialDot(str) == Len(str) = 2 /\ Char(str, 1) \in Lower /\ Char(str, 2) = "."
    IN  \/ NameWord(local)
        \/ (\E cut \in Splits(local, ".") : NameWord(cut[1]) /\ NameWord(cut[2]))
        \/ Len(local) >= 4 /\ Len(local) <= 30 /\ AllChars(local, Lower)
        \/ (\E cut \in Splits(local, ".") : initial(cut[1]) /\ NameWord(cut[2]))
        \/ (\E cut \in Splits(local, ".") : NameWord(cut[1]) /\ initialDot(cut[2]))
        \/ (\E cut \in Splits(local, "_") : NameWord(cut[1]) /\ NameWord(cut[2]))
        \/ (\E cut \in Splits(local, "-") : NameWord(cut[1]) /\ NameWord(cut[2]))
        \/ \E k \in 1 .. 3 :
                /\ Len(local) > k
                /\ AllChars(SubSeq(local, Len(local) - k + 1, Len(local)), Digits)
                /\ NameWord(SubSeq(local, 1, Len(local) - k))

\* validateDomainDNS(domain): resolveMx finds a record unless it fails for the domain
validateDomainDNS(domain, unresolved) == domain \notin unresolved

(***************************************************************************)
(* helpers.js: filterBusinessEmails                                        *)
(***************************************************************************)
isSocial(email) ==
    StartsWith(email, "instagram:") \/ StartsWith(email, "facebook:") \/ StartsWith(email, "twitter:")

\* the tests of the loop body that skip an address, but for the test of
\* disposable domains
rejected(email, unresolved) ==
    LET local == SplitFirst(toLowerCase(email), "@")
        domain == SplitSecond(toLowerCase(email), "@")
        extensions == {"png", "jpg", "jpeg", "gif", "svg", "webp", "bmp", "tiff", "pdf", "doc", "docx"}
        placeholders ==
            {"your@email.com", "user@domain.com", "hi@mystore.com", "test@domain.com",
             "demo@domain.com", "sample@domain.com", "email@example.com", "contact@domain.com",
             "mail@domain.com", "admin@domain.com", "info@domain.com", "example@domain.com",
             "test@test.com", "admin@admin.com", "user@user.com", "contact@contact.com"}
        fillerPrefixes == {"filler", "placeholder", "temp", "temporary", "fake", "dummy", "sample"}
        devDomains == {"godaddy.com", "hostgator.com", "bluehost.com", "lab6.com", "dev.com", "localhost"}
        excludedPrefixes ==
            {"noreply", "no-reply", "donotreply", "do-not-reply", "bounce", "mailer-daemon",
             "postmaster", "abuse", "spam", "webmaster", "root", "sysadmin", "system",
             "daemon", "nobody", "www-data", "apache", "nginx", "ftp", "mail", "alerts",
             "notifications", "automated", "robot", "bot", "crawler", "spider"}
    IN  \/ local = "" \/ domain = "" \/ ~isValidEmailFormat(email)
        \/ \E ext \in extensions : EndsWith(toLowerCase(email), "." \o ext)
        \/ Len(local) >= 24 /\ AllChars(local, Hex)
        \/ Len(local) > 15 /\ AllChars(local, Lower \cup Digits)
        \/ 2 * Cardinality({i \in 1 .. Len(local) : Char(local, i) \in Digits}) > Len(local)
        \/ Includes(domain, "sentry") \/ Includes(local, "sentry")
        \/ toLowerCase(email) \in placeholders
        \/ \E prefix \in fillerPrefixes : StartsWith(local, prefix)
        \/ \E devDomain \in devDomains : Includes(domain, devDomain)
        \/ local = SplitFirst(domain, ".")
        \/ ~validateDomainDNS(domain, unresolved)
        \/ local \in excludedPrefixes

\* every test of the loop body that skips an address
skipped(email, unresolved) ==
    \/ isDisposableDomain(SplitSecond(toLowerCase(email), "@"))
    \/ rejected(email, unresolved)

\* the three tiers of an address
businessTier(email) == isBusinessEmailPattern(email)
personalTier(email) ==
    /\ ~isBusinessEmailPattern(email)
    /\ SplitSecond(toLowerCase(email), "@") \in PERSONAL_PROVIDERS
    /\ looksLikePersonNameLocalPart(SplitFirst(toLowerCase(email), "@"))

onAggregator(email) ==
    \E d \in AGGREGATOR_DOMAINS : EndsWith(SplitSecond(toLowerCase(email), "@"), d)

\* the score where the business tier is worth no more than the personal one
scoreFlat(email, websiteDomain) ==
    IF isSocial(email) THEN 30
    ELSE (IF businessTier(email) \/ personalTier(email) THEN 50 ELSE 10)
         - (IF onAggregator(email) THEN 50 ELSE 0)

\* the score of a contact that is not skipped
score(email, websiteDomain) ==
    IF isSocial(email) THEN 30
    ELSE (IF businessTier(email)
          THEN 100 + (IF websiteDomain # "" /\ EndsWith(SplitSecond(toLowerCase(email), "@"), websiteDomain)
                      THEN 10 ELSE 0)
          ELSE IF personalTier(email) THEN 50
          ELSE 10)
         - (IF onAggregator(email) THEN 50 ELSE 0)

\* the list in the order it came
sortByScoreNot(items) == items

\* Array.prototype.sort((a, b) => b.score - a.score): stable, highest first
sortByScore(items) ==
    LET insert(seq, x) ==
            LET k == Cardinality({i \in 1 .. Len(seq) : seq[i].score >= x.score})
            IN  SubSeq(seq, 1, k) \o <<x>> \o SubSeq(seq, k + 1, Len(seq))
        sorted[n \in 0 .. Len(items)] ==
            IF n = 0 THEN << >> ELSE insert(sorted[n - 1], items[n])
    IN  sorted[Len(items)]

\* validEmails where nothing is skipped
validEmailsUnchecked(items, websiteDomain, unresolved) ==
    [n \in 1 .. Len(items) |-> [email |-> items[n], score |-> score(items[n], websiteDomain)]]

\* validEmails after the loop over an array
validEmails(items, websiteDomain, unresolved) ==
    LET valid[n \in 0 .. Len(items)] ==
            IF n = 0 THEN << >>
            ELSE IF ~isSocial(items[n]) /\ skipped(items[n], unresolved)
                 THEN valid[n - 1]
                 ELSE Append(valid[n - 1],
                             [email |-> items[n], score |-> score(items[n], websiteDomain)])
    IN  valid[Len(items)]

\* filterBusinessEmails(emailList, { websiteDomain }); emailList.kind is
\* "null", "string" (not an array) or "array"
filterBusinessEmails(emailList, websiteDomain, unresolved) ==
    IF emailList.kind # "array" THEN << >>
    ELSE LET ranked == sortByScore(validEmails(emailList.items, websiteDomain, unresolved))
             mapped == [k \in 1 .. Len(ranked) |-> ranked[k].email]
         IN  SubSeq(mapped, 1, Min(6, Len(mapped)))

\* addresses and handles a page can yield
Contacts9 ==
    <<"john@google.com", "a.b.c@yahoo.com", "jane@yahoo.com", "jane.doe@microsoft.com",
      "instagram:acme", "info@wordpress.com", "ceo@apple.com", "normal@google.com",
      "user@google.com">>

OtherStrings ==
    {"john@gmail.com", "test@10minutemail.com", "fake@yopmail.com", "office@acmecompany.com",
     "notanemail", "foo@bar", "noreply@google.com", "Jane@Yahoo.com"}

Rotate(seq, r) == [k \in 1 .. Len(seq) |-> seq[((k - 1 + r) % Len(seq)) + 1]]
Reverse(seq) == [k \in 1 .. Len(seq) |-> seq[Len(seq) + 1 - k]]

ContactStrings == {Contacts9[k] : k \in 1 .. Len(Contacts9)} \cup OtherStrings

\* lists of up to two strings in both orders, and the nine contacts that
\* pass, with two that do not, rotated and reversed
EmailLists ==
    {<< >>}
    \cup {<<a>> : a \in ContactStrings}
    \cup {<<a, b>> : a \in ContactStrings, b \in ContactStrings}
    \cup {Rotate(Contacts9 \o <<"test@10minutemail.com", "notanemail">>, r) : r \in 0 .. 10}
    \cup {Reverse(Rotate(Contacts9, r)) : r \in 0 .. 8}

FilterCalls ==
    [fn : {"filterBusinessEmails"},
     emailList : {[kind |-> "null", items |-> << >>], [kind |-> "string", items |-> << >>]}
                 \cup {[kind |-> "array", items |-> l] : l \in EmailLists},
     websiteDomain : {"", "google.com"},
     unresolved : {{}, {"microsoft.com", "bar"}},
     returned : {FALSE}, ret : {<< >>}]

InitFilter ==
    /\ InitIdle
    /\ call \in FilterCalls

CallFilterBusinessEmails ==
    /\ call.fn = "filterBusinessEmails"
    /\ ~call.returned
    /\ call' = [call EXCEPT !.returned = TRUE,
                            !.ret = filterBusinessEmails(call.emailList, call.websiteDomain,
                                                         call.unresolved)]
    /\ UNCHANGED program

NextFilter == CallFilterBusinessEmails

SpecFilter == InitFilter /\ [][NextFilter]_vars

(***************************************************************************)
(* APIRateLimiter.checkLimits called by the workers of the enrichment pool, *)
(* with the clock it reads                                                 *)
(***************************************************************************)
\* minInterval (100 ms) in ticks of the clock
IntervalTicks == 2
\* the clock stops here
MaxLimiterClock == 6
\* calls of checkLimits() that return
MaxChecks == 4

\* a new APIRateLimiter (lastCallTime = 0) at a time when Date.now() is
\* already past minInterval; no worker has called yet
InitLimiter ==
    /\ InitIdle
    /\ call = [fn |-> "checkLimits", clock |-> IntervalTicks, lastCallTime |-> 0, apiCalls |-> 0,
               worker |-> [w \in Slots |-> [st |-> "idle", wake |-> 0]],
               lastReturn |-> -1, gap |-> IntervalTicks]

\* the end of checkLimits(): lastCallTime = Date.now(); apiCalls++; gap is
\* the time since the return before this one
Returned(c, w) ==
    [c EXCEPT !.lastCallTime = c.clock,
              !.apiCalls = @ + 1,
              !.worker[w] = [st |-> "idle", wake |-> 0],
              !.gap = IF c.lastReturn = -1 THEN @ ELSE c.clock - c.lastReturn,
              !.lastReturn = c.clock]

\* a worker calls checkLimits(): the cost test, then either the sleep is
\* started or the call returns at once
checkLimitsEnter(w) ==
    /\ call.fn = "checkLimits"
    /\ call.worker[w].st = "idle"
    /\ call.apiCalls < MaxChecks
    /\ LET timeSinceLastCall == call.clock - call.lastCallTime IN
       call' = IF OverLimit(call.apiCalls)
               THEN [call EXCEPT !.worker[w] = [st |-> "thrown", wake |-> 0]]
               ELSE IF timeSinceLastCall < IntervalTicks
               THEN [call EXCEPT !.worker[w] =
                        [st |-> "sleep", wake |-> call.clock + (IntervalTicks - timeSinceLastCall)]]
               ELSE Returned(call, w)
    /\ UNCHANGED program

\* the sleep of a worker is over and its call returns
checkLimitsWake(w) ==
    /\ call.fn = "checkLimits"
    /\ call.worker[w].st = "sleep"
    /\ call.clock >= call.worker[w].wake
    /\ call' = Returned(call, w)
    /\ UNCHANGED program

\* time passes, but not past the end of a sleep
LimiterTick ==
    /\ call.fn = "checkLimits"
    /\ call.clock < MaxLimiterClock
    /\ \A w \in Slots : call.worker[w].st = "sleep" => call.clock < call.worker[w].wake
    /\ call' = [call EXCEPT !.clock = @ + 1]
    /\ UNCHANGED program

NextLimiter ==
    \/ \E w \in Slots : checkLimitsEnter(w)
    \/ \E w \in Slots : checkLimitsWake(w)
    \/ LimiterTick

SpecLimiter == InitLimiter /\ [][NextLimiter]_vars

(***************************************************************************)
(* The daily rotation of the cohorts: calculateDailyCohort on consecutive  *)
(* days                                                                    *)
(***************************************************************************)
\* largest cohortCount of a rotation (the documented rotation has 14 cohorts)
MaxCohortCount == 14

\* parts a day of the clock is divided into
PartsPerDay == 2

\* the lengths of a calendar year, in days
YearLengths == {365, 366}

\* the year that can follow a year of the given length: a leap year is followed by a
\* common year
NextYearLengths(len) == IF len = 366 THEN {365} ELSE YearLengths

\* Math.floor((today - new Date(today.getFullYear(), 0, 0)) / 86400000): the whole days
\* since the last midnight of the previous year; today counts the parts since 1 January 00:00
dayOfYear(today) == (today + PartsPerDay) \div PartsPerDay

\* the same count taken from 1 January instead of 31 December
dayOfYearFromZero(today) == today \div PartsPerDay

calculateDailyCohort(cityCohortIndex, cohortCount, today) ==
    IF cityCohortIndex # -1 /\ cityCohortIndex >= 0
    THEN cityCohortIndex
    ELSE dayOfYear(today) % cohortCount

\* the cohort index of a run: parseInt(cityCohortIndex), or the daily cohort
cohortIdxOf(cityCohortIndex, totalCohorts, today) ==
    IF cityCohortIndex < 0
    THEN calculateDailyCohort(cityCohortIndex, totalCohorts, today)
    ELSE cityCohortIndex

\* the times of the first run of a rotation: any time of the first or of the last
\* MaxCohortCount days of the year
FirstRunTimes(len) ==
    (0 .. MaxCohortCount * PartsPerDay - 1) \cup
    ((len - MaxCohortCount) * PartsPerDay .. len * PartsPerDay - 1)

\* a rotation that has not run yet: cohortCount, cityCohortIndex, the year and the time
\* of the first run
RotationCalls ==
    UNION {{[fn |-> "calculateDailyCohort", cohortCount |-> k, cityCohortIndex |-> c,
             yearLength |-> len, today |-> t, days |-> << >>, picks |-> << >>] :
                c \in {-1, 0, k - 1}, t \in FirstRunTimes(len)} :
           k \in 1 .. MaxCohortCount, len \in YearLengths}

InitRotation ==
    /\ InitIdle
    /\ call \in RotationCalls

\* the run of one day selects its cohort, and the clock moves on to the same time of the
\* next day, into the next year after the last day of the year
DailyRun ==
    /\ call.fn = "calculateDailyCohort"
    /\ Len(call.picks) < call.cohortCount
    /\ \E len \in NextYearLengths(call.yearLength) :
          LET next == call.today + PartsPerDay
              over == next >= call.yearLength * PartsPerDay
          IN  call' = [call EXCEPT
                          !.picks = Append(@, cohortIdxOf(call.cityCohortIndex,
                                                          call.cohortCount, call.today)),
                          !.days = Append(@, dayOfYear(call.today)),
                          !.today = IF over THEN next - call.yearLength * PartsPerDay
                                    ELSE next,
                          !.yearLength = IF over THEN len ELSE @]
    /\ UNCHANGED program

NextRotation == DailyRun

SpecRotation == InitRotation /\ [][NextRotation]_vars

(***************************************************************************)
(* A batch flush on its own: asyncPool(2, batchLeads, iterator), then      *)
(* saveLeadsIncremental, saveCheckpoint and the clearing of the batch      *)
(***************************************************************************)
\* longest batch handed to asyncPool
MaxBatch == 5

\* a loop that never waits for a running item
mustAwaitNever(poolLimit, arrayLength, executingLength) == FALSE

\* the loop of asyncPool waits for Promise.race(executing) when the items are counted
\* (poolLimit <= array.length) and poolLimit of them are executing
mustAwait(poolLimit, arrayLength, executingLength) ==
    poolLimit <= arrayLength /\ executingLength >= poolLimit

\* a flush that has not begun: a batch of n leads, none handed to the iterator
FlushCalls ==
    {[fn |-> "asyncPool", array |-> [i \in 1 .. n |-> "pending"], next |-> 1,
      executing |-> {}, awaiting |-> FALSE, stage |-> "pool"] : n \in 1 .. MaxBatch}

InitFlush ==
    /\ InitIdle
    /\ call \in FlushCalls

\* one turn of the for-loop: the iterator is started for the next item, the item is
\* counted as executing when poolLimit <= array.length, and the loop waits when
\* poolLimit items are executing
asyncPoolLaunch ==
    /\ call.fn = "asyncPool" /\ call.stage = "pool"
    /\ call.next <= Len(call.array)
    /\ ~call.awaiting
    /\ LET executing == IF PoolLimit <= Len(call.array)
                        THEN call.executing \cup {call.next} ELSE call.executing
       IN  call' = [call EXCEPT
                       !.array[call.next] = "enrich",
                       !.executing = executing,
                       !.awaiting = mustAwait(PoolLimit, Len(call.array),
                                              Cardinality(executing)),
                       !.next = @ + 1]
    /\ UNCHANGED program

\* the iterator of item i: enrichPlaceDetails(lead) has returned
iteratorEnriched(i) ==
    /\ call.fn = "asyncPool" /\ call.stage = "pool"
    /\ i \in DOMAIN call.array
    /\ call.array[i] = "enrich"
    /\ call' = [call EXCEPT !.array[i] = "mark"]
    /\ UNCHANGED program

\* the iterator of item i: markPlaceSeen has returned, the item leaves executing and
\* Promise.race(executing) resolves
iteratorMarked(i) ==
    /\ call.fn = "asyncPool" /\ call.stage = "pool"
    /\ i \in DOMAIN call.array
    /\ call.array[i] = "mark"
    /\ call' = [call EXCEPT !.array[i] = "done",
                            !.executing = @ \ {i},
                            !.awaiting = IF i \in call.executing THEN FALSE ELSE @]
    /\ UNCHANGED program

\* return Promise.all(ret): the loop has ended and every iterator has finished
asyncPoolReturn ==
    /\ call.fn = "asyncPool" /\ call.stage = "pool"
    /\ call.next > Len(call.array)
    /\ \A i \in DOMAIN call.array : call.array[i] = "done"
    /\ call' = [call EXCEPT !.stage = "joined"]
    /\ UNCHANGED program

\* the statements after the pool: saveLeadsIncremental, saveCheckpoint,
\* batchLeads.length = 0, and the loop over the candidates goes on
flushContinue ==
    /\ call.fn = "asyncPool"
    /\ call.stage \in {"joined", "written", "saved"}
    /\ call' = [call EXCEPT !.stage = CASE @ = "joined" -> "written"
                                        [] @ = "written" -> "saved"
                                        [] @ = "saved" -> "cleared"]
    /\ UNCHANGED program

NextFlush ==
    \/ asyncPoolLaunch
    \/ \E i \in 1 .. MaxBatch : iteratorEnriched(i)
    \/ \E i \in 1 .. MaxBatch : iteratorMarked(i)
    \/ asyncPoolReturn
    \/ flushContinue

SpecFlush == InitFlush /\ [][NextFlush]_vars

(***************************************************************************)
(* The cells of one city on their own, for a range of radiusMeters         *)
(***************************************************************************)
\* most rings of cells around a city
MaxRings == 3

\* the radii around the multiples of the cell ceiling, up to MaxRings of them
CellRadii ==
    {r \in {k * CellCeiling + d : k \in 0 .. MaxRings, d \in {-1, 0, 1}} : r > 0}

\* a city whose cells are not built yet
CellCalls ==
    {[fn |-> "geoboxCenters", radiusMeters |-> r, built |-> FALSE, centers |-> << >>,
      circles |-> << >>] : r \in CellRadii}

InitCells ==
    /\ InitIdle
    /\ call \in CellCalls

\* geoboxCenters of the city are built
BuildCells ==
    /\ call.fn = "geoboxCenters"
    /\ ~call.built
    /\ call' = [call EXCEPT !.built = TRUE, !.centers = cellsOf(call.radiusMeters)]
    /\ UNCHANGED program

\* the loop over the cells: the next cell is searched within a circle around its
\* centre, of radius boxRadius
SearchCell ==
    /\ call.fn = "geoboxCenters"
    /\ call.built
    /\ Len(call.circles) < Len(call.centers)
    /\ call' = [call EXCEPT
                    !.circles = Append(@, [center |-> call.centers[Len(@) + 1],
                                           radius |-> boxRadiusOf(call.radiusMeters)])]
    /\ UNCHANGED program

NextCells == BuildCells \/ SearchCell

SpecCells == InitCells /\ [][NextCells]_vars

(***************************************************************************)
(* A schedule that moves on to another cohort: a run, ended or interrupted *)
(* at any point, is followed by a run with another cityCohortIndex over    *)
(* the same stores                                                         *)
(***************************************************************************)
InitRecohort ==
    /\ input \in { i \in Inputs : /\ i.maxDailyCost = DefaultCost
                                  /\ ~i.persistDedupe
                                  /\ i.cooldownDays = 0 }
    /\ world = [places |-> Places, pages |-> 1]
    /\ InitRun
    /\ call = NoCall

NextRecohort == Run \/ RestartCohort(CohortRuns)

SpecRecohort == InitRecohort /\ [][NextRecohort]_vars

(***************************************************************************)
(* Runs with and without the rate limiter                                  *)
(***************************************************************************)
InitToggle ==
    /\ input \in Inputs \cup InputsNoLimiter
    /\ world = [places |-> Places, pages |-> MaxPages]
    /\ InitRun
    /\ call = NoCall

SpecToggle == InitToggle /\ [][Next]_vars

(***************************************************************************)
(* Runs under a low cost ceiling against a provider that never runs out of *)
(* pages. Every step of a run is a request with a timeout, a sleep of      *)
(* finite length or a computation, so a run that can take a step does take *)
(* one                                                                     *)
(***************************************************************************)
InitEndless ==
    /\ input \in {i \in Inputs : i.maxDailyCost = LowCost}
    /\ world = [places |-> Places, pages |-> 0]
    /\ InitRun
    /\ call = NoCall

SpecEndless == InitEndless /\ [][Next]_vars /\ WF_vars(Next)

RECURSIVE Flatten(_)
Flatten(ss) == IF ss = << >> THEN << >> ELSE Head(ss) \o Flatten(Tail(ss))

Range(f) == {f[x] : x \in DOMAIN f}

(***************************************************************************)
(* Properties                                                              *)
(***************************************************************************)
\* C1: once a checkLimits() call has thrown because the estimated cost
\* reached maxDailyCost, the call counter is not incremented again and no
\* priced API request (geocoding, text search, legacy search, place details)
\* is issued.
C1_NoSpendAfterLimit ==
    [][limitHit => (apiCalls' = apiCalls /\ lastReq' = "none")]_vars

\* C2: after a checkLimits() call has failed on the cost ceiling the run
\* writes no further leads, does not advance the stored checkpoint and does
\* not finish as a successful run.
C2_LimitIsFatal ==
    [][limitHit => (dataset' = dataset /\ cpStore' = cpStore /\ pc' # "done")]_vars

\* C3: a run that loaded the checkpoint (c, t) sends no geocoding or search
\* request for a city with index < c, and for the city with index c no search
\* request for a term index < t, in any cell.
C3_ResumeSkips ==
    /\ \A i \in geocoded : i >= resume.city
    /\ \A s \in searched :
         /\ s[1] >= resume.city
         /\ (s[1] = resume.city => s[3] >= resume.term)

\* C4: a city recorded as completed by an earlier attempt is not geocoded or
\* searched by a later attempt, until a run completes and resets the
\* checkpoint.
C4_CompletedCityNotRedone ==
    \A i \in donePrev : i \notin geocoded /\ (\A s \in searched : s[1] # i)

\* C5: when the stored checkpoint is (c, t), no lead accepted in a city
\* before c, or under a term before t of city c, is still in the batch that
\* has not been written to the dataset.
C5_CheckpointBehindBatch ==
    (cpStore # << >> /\ pc # "saveCp") =>
        \A k \in DOMAIN batchLeads :
            LET cp == cpStore[1]
                lead == batchLeads[k]
            IN  ~ \/ lead.city < cp.currentCityIndex
                  \/ /\ lead.city = cp.currentCityIndex
                     /\ lead.searchTerm < cp.currentSearchTermIndex

\* C6: a fresh run with radiusMeters > 5000 that completes has sent at least
\* one search request for every (cell, term) of every city of the cohort.
C6_EveryCellTermSearched ==
    (pc = "done" /\ input.radiusMeters > CellCeiling) =>
        \A k \in DOMAIN selectedCities, c \in DOMAIN geoboxCenters, t \in Terms :
            << k - 1, c, t >> \in searched

\* C7: an exception of a search page request never terminates the run, also
\* when the legacy request that is tried after it throws as well.
C7_SearchErrorNotFatal ==
    ~(pc = "failed" /\ err = "search")

\* C8: no two records a run writes to the dataset have the same placeId.
C8_UniquePlaceIdInRun ==
    \A r \in DOMAIN dataset : \A p \in Places : dataset[r][p] <= 1

\* a place the gate has turned down as a duplicate is in the dataset once
C8_Witness ==
    /\ lastGate.verdict = "duplicate"
    /\ dataset[runNo][lastGate.p] = 1
    /\ Cardinality(searched) > 1

\* C9: every place the run wrote a cooldown record for has been written to
\* the dataset by that run.
C9_MarkedImpliesSaved ==
    \A p \in marked : dataset[runNo][p] > 0

\* C10 (as stated): a candidate not yet seen in the run is rejected by
\* cooldown if and only if persistDedupe is enabled, cooldownDays > 0 and the
\* store holds a record of it whose lastSeen is less than cooldownDays days
\* before now.
C10_RejectedIffRecentRecord ==
    (lastGate.verdict # "none" /\ ~lastGate.seen) =>
        ( lastGate.verdict = "cooldown"
          <=> (input.persistDedupe /\ input.cooldownDays > 0 /\ lastGate.recent) )

\* C10 (amended): a candidate not yet seen in the run is rejected by cooldown
\* if and only if persistDedupe is enabled, cooldownDays > 0, the read of the
\* store succeeds and returns a record whose lastSeen is less than
\* cooldownDays days before now; otherwise it is accepted.
C10_RejectedIffRecentRecordRead ==
    (lastGate.verdict # "none" /\ ~lastGate.seen) =>
        /\ lastGate.verdict = "cooldown"
             <=> ( /\ input.persistDedupe
                   /\ input.cooldownDays > 0
                   /\ lastGate.readOk
                   /\ lastGate.recent )
        /\ lastGate.verdict # "cooldown" => lastGate.verdict = "accepted"

\* a later run turns down a place an earlier run marked within the window
C10_Witness ==
    /\ lastGate.verdict = "cooldown"
    /\ lastGate.recent
    /\ ~lastGate.seen
    /\ runNo > 1

C12_AbortKeepsStores ==
    [][(pc' = "failed" /\ err' = "limit") =>
         (dataset' = dataset /\ cpStore' = cpStore)]_vars

\* the run has aborted on the cost ceiling after it wrote leads and saved a
\* checkpoint
C12_Witness ==
    /\ pc = "failed" /\ err = "limit"
    /\ \E p \in Places : dataset[runNo][p] > 0
    /\ cpStore # << >> /\ ~cpStore[1].completedAt

\* C13: only leads that enrichPlaceDetails has returned for are written to the
\* dataset, and when a run completes every place the dedup gate accepted is
\* in the run's dataset exactly once and the batch buffer is empty.
C13_AcceptedWrittenOnce ==
    [][/\ dataset' # dataset => \A k \in DOMAIN batchLeads : batchLeads[k].enriched
       /\ pc' = "done" =>
            /\ \A p \in Places :
                 dataset'[runNo'][p] = IF p \in allPlaces' THEN 1 ELSE 0
            /\ batchLeads' = << >>]_vars

\* a completed run that accepted every place the provider knows
C13_Witness ==
    /\ pc = "done"
    /\ allPlaces = Places
    /\ \A p \in Places : dataset[runNo][p] = 1

\* C14: when the city loop has finished, the stored checkpoint has an empty
\* processedCities list, currentCityIndex 0, currentSearchTermIndex 0 and a
\* completion timestamp, and a run that loads it starts from the first city
\* and the first term.
C14_CompletionResetsCheckpoint ==
    [][/\ pc' = "done" =>
            cpStore' = << [processedCities |-> << >>, currentCityIndex |-> 0,
                           currentSearchTermIndex |-> 0, completedAt |-> TRUE] >>
       /\ (pc = "start" /\ pc' = "geocode" /\ cpStore # << >> /\ cpStore[1].completedAt) =>
            /\ resume' = [city |-> 0, term |-> 0]
            /\ checkpoint'.processedCities = << >>]_vars

\* the run after a completed run has loaded the reset checkpoint and sent the
\* first city of the cohort to the geocoding API
C14_Witness ==
    /\ runNo > 1
    /\ cpStore # << >> /\ cpStore[1].completedAt
    /\ resume = [city |-> 0, term |-> 0]
    /\ 0 \in geocoded

\* C15: the number of places taken from the search results of one search
\* term (here: of one term in one cell) never exceeds maxPerTerm.
C15_TermCapRespected ==
    pc = "places" => fetched + pIdx <= input.maxPerTerm

C17_CityListNeedsNoLocation ==
    ( /\ input.present /\ input.useTopUSCities /\ ~input.location
      /\ input.searchTerms = "list" /\ input.radiusMeters # 0 /\ input.maxPerTerm # 0 ) =>
        ~(pc = "failed" /\ err = "input")

\* C18: for a list of n cities and a cohortCount k with 1 <= k <= n, the
\* slices getCitiesForCohort(list, i, k), i = 0 .. k-1, are pairwise disjoint
\* and concatenated in the order of i they are the list.
C18_CohortsPartitionList ==
    (call.fn = "getCitiesForCohort" /\ call.cohortIndex = call.cohortCount) =>
        /\ Len(call.cohorts) = call.cohortCount
        /\ Flatten(call.cohorts) = call.allCities
        /\ \A a, b \in 1 .. Len(call.cohorts) :
                a # b => Range(call.cohorts[a]) \cap Range(call.cohorts[b]) = {}

\* five cities cut into four cohorts: the last cohort is empty, the others
\* hold 2, 2 and 1 cities
C18_Witness ==
    /\ call.fn = "getCitiesForCohort"
    /\ Len(call.allCities) = 5 /\ call.cohortCount = 4 /\ call.cohortIndex = 4
    /\ call.cohorts = << <<0, 1>>, <<2, 3>>, <<4>>, << >> >>

\* C19: for every input string, normalizePhone returns a string that starts
\* with '+' and has only digits after it.
C19_PlusThenDigits ==
    (call.fn = "normalizePhone" /\ call.returned) =>
        /\ call.ret # << >>
        /\ call.ret[1] = "+"
        /\ \A i \in 2 .. Len(call.ret) : call.ret[i] \in Digits

\* C19 (amended): for every input string but the empty one, normalizePhone
\* returns a string that starts with '+' and has only digits after it; for the
\* empty string it returns the empty string.
C19_PlusThenDigitsNonEmpty ==
    (call.fn = "normalizePhone" /\ call.returned) =>
        IF call.phone = << >>
        THEN call.ret = << >>
        ELSE /\ call.ret # << >>
             /\ call.ret[1] = "+"
             /\ \A i \in 2 .. Len(call.ret) : call.ret[i] \in Digits

\* '+0-1' has come back as '+01'
C19_Witness ==
    /\ call.fn = "normalizePhone" /\ call.returned
    /\ call.phone = <<"+", "0", "-", "1">>
    /\ call.ret = <<"+", "0", "1">>

\* C20: every rendering of a ten-digit US number (bare, or with spaces, dots,
\* dashes or parentheses, with or without a leading 1 or +1) is normalized to
\* '+1' followed by the ten digits, so that any two of them give one string.
C20_USRenderingsAgree ==
    (call.fn = "normalizePhone" /\ call.returned) =>
        \A d \in USNumbers :
            call.phone \in USRenderings(d) => call.ret = <<"+", "1">> \o d

\* '(415) 555-1234' has come back as '+14155551234'
C20_Witness ==
    /\ call.fn = "normalizePhone" /\ call.returned
    /\ call.phone = <<"(", "4", "1", "5", ")", " ", "5", "5", "5", "-", "1", "2", "3", "4">>
    /\ call.ret = <<"+", "1", "4", "1", "5", "5", "5", "5", "1", "2", "3", "4">>

\* C21: dedupePlaces returns one record for each placeId of the list, the
\* first record of that placeId, in the order of the first occurrences, and
\* dedupePlaces(L \o L) = dedupePlaces(L) = dedupePlaces(dedupePlaces(L)).
C21_DedupeFirstOccurrence ==
    (call.fn = "dedupePlaces" /\ call.returned) =>
        LET first(id) == CHOOSE i \in 1 .. Len(call.arr) :
                            /\ call.arr[i].placeId = id
                            /\ \A j \in 1 .. (i - 1) : call.arr[j].placeId # id
        IN  /\ {call.ret[k].placeId : k \in 1 .. Len(call.ret)} =
                    {call.arr[i].placeId : i \in 1 .. Len(call.arr)}
            /\ \A k \in 1 .. Len(call.ret) : call.ret[k] = call.arr[first(call.ret[k].placeId)]
            /\ \A k, l \in 1 .. Len(call.ret) :
                    k < l => first(call.ret[k].placeId) < first(call.ret[l].placeId)
            /\ call.retTwice = call.ret
            /\ call.retAgain = call.ret

\* the list of the test: abc/A, def/A, abc/A2 gives abc/A, def/A
C21_Witness ==
    /\ call.fn = "dedupePlaces" /\ call.returned
    /\ call.arr = << [placeId |-> "abc", name |-> "A"], [placeId |-> "def", name |-> "A"],
                     [placeId |-> "abc", name |-> "A2"] >>
    /\ call.ret = << [placeId |-> "abc", name |-> "A"], [placeId |-> "def", name |-> "A"] >>

C23_DisposableOutBusinessKept ==
    (call.fn = "filterBusinessEmails" /\ call.returned /\ call.emailList.kind = "array") =>
        LET items == call.emailList.items
            domain(e) == SplitSecond(toLowerCase(e), "@")
        IN  /\ \A k \in 1 .. Len(call.ret) :
                    ~isSocial(call.ret[k]) => domain(call.ret[k]) \notin DISPOSABLE_DOMAINS
            /\ Len(items) <= 6 =>
                    \A n \in 1 .. Len(items) :
                        ( /\ businessTier(items[n])
                          /\ domain(items[n]) \notin DISPOSABLE_DOMAINS
                          /\ ~rejected(items[n], call.unresolved) )
                            => \E k \in 1 .. Len(call.ret) : call.ret[k] = items[n]

C25_TopSixByScore ==
    (call.fn = "filterBusinessEmails" /\ call.returned /\ call.emailList.kind = "array") =>
        LET passed == validEmails(call.emailList.items, call.websiteDomain, call.unresolved)
        IN  /\ Len(call.ret) <= 6
            /\ \A i, j \in 1 .. Len(call.ret) :
                    i < j => score(call.ret[i], call.websiteDomain) >= score(call.ret[j], call.websiteDomain)
            /\ \A n \in 1 .. Len(passed) :
                    (\A k \in 1 .. Len(call.ret) : call.ret[k] # passed[n].email) =>
                        \A k \in 1 .. Len(call.ret) :
                            score(call.ret[k], call.websiteDomain) >= passed[n].score

\* nine contacts passed the tests and the six best came back, the three of
\* the site's own domain first
C25_Witness ==
    /\ call.fn = "filterBusinessEmails" /\ call.returned
    /\ call.websiteDomain = "google.com" /\ call.unresolved = {}
    /\ call.emailList.items = Contacts9 \o <<"test@10minutemail.com", "notanemail">>
    /\ call.ret = <<"john@google.com", "normal@google.com", "user@google.com",
                    "jane.doe@microsoft.com", "ceo@apple.com", "jane@yahoo.com">>

\* C26: after a search term j of the city with cohort index i the stored
\* checkpoint is (i, j + 1), and after the city it is (i + 1, 0) with i
\* appended to processedCities, also in a run that resumed from a checkpoint
\* with currentCityIndex > 0.
C26_CheckpointFollowsCohortIndex ==
    [][ /\ (pc = "termDone" /\ pc' = "term") =>
              /\ cpStore'[1].currentCityIndex = index
              /\ cpStore'[1].currentSearchTermIndex = termIdx + 1
        /\ (pc = "cityDone" /\ pc' = "city") =>
              /\ cpStore'[1].currentCityIndex = index + 1
              /\ cpStore'[1].currentSearchTermIndex = 0
              /\ cpStore'[1].processedCities = Append(checkpoint.processedCities, index) ]_vars

\* C27: with the two workers of the enrichment pool calling checkLimits()
\* concurrently, the call counter never exceeds the smallest call count whose
\* estimated cost is greater than or equal to maxDailyCost.
C27_CounterWithinCeiling ==
    apiCalls <= CeilDiv(input.maxDailyCost, estimateCost(1))

\* C29: the call counter counts the priced requests: every geocoding, text
\* search and legacy search request is issued with a checkLimits() call of
\* its own, and every checkLimits() call that enrichPlaceDetails has counted
\* is followed by the place-details request.
C29_CounterCountsRequests ==
    [][ /\ lastReq' \in {"geocode", "search", "legacy"} => apiCalls' = apiCalls + 1
        /\ (\E s \in Slots : slots[s].st = "enrich" /\ slots'[s].st = "mark")
                => lastReq' = "details" ]_vars

\* C30: a candidate whose identifier was already accepted in this run is
\* rejected by the in-run set as a duplicate, and is not counted as skipped
\* due to cooldown.
C30_InRunSetFirst ==
    [][(lastGate'.p # 0 /\ lastGate'.seen) => lastGate'.verdict = "duplicate"]_vars

\* C28: any two successive returns of checkLimits() on one rate limiter are
\* at least minInterval apart, also when the two workers of the enrichment
\* pool call it concurrently.
C28_ReturnsSpaced ==
    call.fn = "checkLimits" => call.gap >= IntervalTicks

C32_DailyRotationCoversEachCohortOnce ==
    call.fn = "calculateDailyCohort" =>
        /\ \A j \in 1 .. Len(call.picks) :
              call.picks[j] = IF call.cityCohortIndex >= 0 THEN call.cityCohortIndex
                              ELSE call.days[j] % call.cohortCount
        /\ (call.cityCohortIndex = -1 /\ Len(call.picks) = call.cohortCount) =>
              \A c \in 0 .. call.cohortCount - 1 :
                  Cardinality({j \in 1 .. Len(call.picks) : call.picks[j] = c}) = 1

\* C32: the runs of the days of one year do select every cohort index exactly once
C32_RotationWithinOneYear ==
    (/\ call.fn = "calculateDailyCohort" /\ call.cityCohortIndex = -1
     /\ Len(call.picks) = call.cohortCount
     /\ \A j \in 1 .. Len(call.days) - 1 : call.days[j + 1] = call.days[j] + 1) =>
        \A c \in 0 .. call.cohortCount - 1 :
            Cardinality({j \in 1 .. Len(call.picks) : call.picks[j] = c}) = 1

\* C32: the manual index and the day-of-year formula taken alone
C32_IndexFormula ==
    call.fn = "calculateDailyCohort" =>
        \A j \in 1 .. Len(call.picks) :
            call.picks[j] = IF call.cityCohortIndex >= 0 THEN call.cityCohortIndex
                            ELSE call.days[j] % call.cohortCount

C34_PoolBoundedAndJoined ==
    call.fn = "asyncPool" =>
        /\ Cardinality({i \in DOMAIN call.array : call.array[i] = "enrich"}) <= PoolLimit
        /\ call.stage # "pool" => \A i \in DOMAIN call.array : call.array[i] = "done"

\* C34: in a batch of more than PoolLimit leads, PoolLimit calls are in progress and the
\* loop waits with leads still to start
C34_Witness ==
    /\ call.fn = "asyncPool" /\ call.stage = "pool" /\ call.awaiting
    /\ Cardinality({i \in DOMAIN call.array : call.array[i] = "enrich"}) = PoolLimit
    /\ call.next <= Len(call.array)

\* C34: in a run, a batch is written and the checkpoint saved only when every lead of it
\* has been enriched and no call is in progress, and no candidate is examined meanwhile
C34_RunFlushJoined ==
    /\ Cardinality(running) <= PoolLimit
    /\ pc \in {"save", "saveCp"} =>
          running = {} /\ \A k \in DOMAIN batchLeads : batchLeads[k].enriched
    /\ running # {} => pc = "pool"

\* C35: with radiusMeters <= 5000 a city is one cell, centred on the city and searched
\* with radius radiusMeters; with radiusMeters > 5000 its cells are the centre cell and
\* then exactly 6 cells on each of ceil(radiusMeters / 5000) rings, in increasing ring
\* order, 1 + 6 * ceil(radiusMeters / 5000) cells, each searched with radius 5000
C35_CellsOfCity ==
    (call.fn = "geoboxCenters" /\ call.built /\ Len(call.circles) = Len(call.centers)) =>
        LET r == call.radiusMeters
            numRings == CHOOSE n \in 0 .. MaxRings + 2 :
                            /\ n * 5000 >= r
                            /\ \A m \in 0 .. MaxRings + 2 : m * 5000 >= r => n <= m
            cells == call.circles
        IN  IF r <= 5000
            THEN cells = << [center |-> [ring |-> 0, point |-> 0], radius |-> r] >>
            ELSE /\ Len(cells) = 1 + 6 * numRings
                 /\ cells[1].center = [ring |-> 0, point |-> 0]
                 /\ \A k \in 2 .. Len(cells) :
                       /\ cells[k].center.ring = 1 + (k - 2) \div 6
                       /\ cells[k].center.point = (k - 2) % 6
                 /\ \A k \in DOMAIN cells : cells[k].radius = 5000

\* C35: a city of radius 10001 has been searched in its 19 cells
C35_Witness ==
    /\ call.fn = "geoboxCenters" /\ call.radiusMeters = 2 * CellCeiling + 1
    /\ Len(call.circles) = 19
    /\ call.circles[19] = [center |-> [ring |-> 3, point |-> 5], radius |-> 5000]

\* C36: an address of valid format whose local part looks like a person name and whose
\* domain is one of the personal-mail providers, with a resolvable MX, is in the list
\* filterBusinessEmails returns and has the score 50 (here: when no rule on the local
\* part or on the whole address rejects it and the input has no more than 6 entries)
C36_PersonalProviderKept ==
    (/\ call.fn = "filterBusinessEmails" /\ call.returned
     /\ call.emailList.kind = "array" /\ Len(call.emailList.items) <= 6) =>
        LET items == call.emailList.items
            local(e) == SplitFirst(toLowerCase(e), "@")
            domain(e) == SplitSecond(toLowerCase(e), "@")
        IN  \A n \in 1 .. Len(items) :
                ( /\ isValidEmailFormat(items[n])
                  /\ looksLikePersonNameLocalPart(local(items[n]))
                  /\ domain(items[n]) \in PERSONAL_PROVIDERS
                  /\ ~rejected(items[n], call.unresolved) )
                    => /\ \E k \in 1 .. Len(call.ret) : call.ret[k] = items[n]
                       /\ score(items[n], call.websiteDomain) = 50

\* C36: the same holds of the providers whose name contains no listed disposable domain
C36_PersonalProviderKeptUnlessListed ==
    (/\ call.fn = "filterBusinessEmails" /\ call.returned
     /\ call.emailList.kind = "array" /\ Len(call.emailList.items) <= 6) =>
        LET items == call.emailList.items
            local(e) == SplitFirst(toLowerCase(e), "@")
            domain(e) == SplitSecond(toLowerCase(e), "@")
        IN  \A n \in 1 .. Len(items) :
                ( /\ isValidEmailFormat(items[n])
                  /\ looksLikePersonNameLocalPart(local(items[n]))
                  /\ domain(items[n]) \in PERSONAL_PROVIDERS
                  /\ ~isDisposableDomain(domain(items[n]))
                  /\ ~rejected(items[n], call.unresolved) )
                    => /\ \E k \in 1 .. Len(call.ret) : call.ret[k] = items[n]
                       /\ score(items[n], call.websiteDomain) = 50

\* C37: a run over another cohort than the run before it, whose cities that run never
\* processed, passes over none of its cities and none of their search terms because of
\* the checkpoint the earlier run left
C37_OtherCohortSkipsNothing ==
    [][runNo > 1 =>
          /\ (pc = "geocode" /\ pc' = "geocode" /\ gi' = gi + 1) =>
                ~(gi < checkpoint.currentCityIndex)
          /\ (pc = "term" /\ pc' = "term" /\ termIdx' = termIdx + 1) => ~skipTerm]_vars

\* C37: the cities of the second run are none of the cities of the first
C37_CohortsDisjoint ==
    \A a, b \in 0 .. CohortCountInput - 1 :
        a # b => Range(getCitiesForCohort(TOP_US_CITIES, a, CohortCountInput))
                     \cap Range(getCitiesForCohort(TOP_US_CITIES, b, CohortCountInput)) = {}

\* C38: for a cohortCount that is not larger than the number of cities, the slice of
\* every cohort index 0 .. cohortCount - 1 holds at least one city
C38_NoEmptyCohort ==
    call.fn = "getCitiesForCohort" =>
        \A j \in 1 .. Len(call.cohorts) : call.cohorts[j] # << >>

\* C38: the cohorts that are empty are the last ones, past the end of the list
C38_EmptyCohortsPastTheEnd ==
    call.fn = "getCitiesForCohort" =>
        \A j \in 1 .. Len(call.cohorts) :
            call.cohorts[j] = << >> <=>
                (j - 1) * CeilDiv(Len(call.allCities), call.cohortCount) >= Len(call.allCities)

\* C39: a run with enableRateLimiting = false fails only where the same run with the
\* rate limiter can fail (a place not found by the geocoder, a failed search request),
\* never because the rate limiter is absent
C39_RunsWithoutCostGuard ==
    (~input.enableRateLimiting /\ pc = "failed") => err \in {"geocode", "search"}

\* C39: no run with enableRateLimiting = false in city-list mode makes a request
C39_NoRequestWithoutCostGuard ==
    ~input.enableRateLimiting =>
        /\ pc \in {"start", "geocode", "failed"}
        /\ geocoded = {} /\ searched = {} /\ lastReq = "none"

\* C40: with the rate limiter and a finite maxDailyCost every run ends, completed or
\* failed, also when the provider returns a next-page token with every page and the
\* pages are empty
C40_RunTerminates == <>(pc \in {"done", "failed"})

\* C40: the successful checkLimits() calls of a run stay below the ceiling of the cost
\* test, but for the calls that the pool had in flight together
C40_CallsBounded ==
    \A n \in 0 .. apiCalls - PoolLimit : ~OverLimit(n)

\* C40: a run that met only empty pages with a token has been stopped at the cost test
C40_Witness ==
    /\ world.pages = 0 /\ pc = "failed" /\ err = "limit"
    /\ nextTok /\ allPlaces = {} /\ Cardinality(searched) = 1

====
